---- MODULE Spec2Model ----
(***************************************************************************)
(* State-machine model of the FOK catalog bot: the application workflow    *)
(* (submit, confirm-cancel, admin accept / transfer / complete / reject)   *)
(* over the stored collections, and the rate-limit middleware over its     *)
(* key in the key-value store.  Handlers are split at their awaits, so     *)
(* that updates processed concurrently interleave as they do in the bot.   *)
(***************************************************************************)
EXTENDS Integers, Sequences, FiniteSets, TLC

\* ------------------------------------------------------------------ bounds

\* Largest number of Application documents ever inserted.
MaxApps == 2

\* Largest number of updates the dispatcher receives in one behaviour.
MaxRequests == 4

\* Largest number of updates user resolution receives in one behaviour.
MaxUserUpdates == 3

\* Largest number of admin callbacks the admin gate receives in one behaviour.
MaxGateRequests == 3

\* Largest number of updates the onboarding conversation receives in one
\* behaviour.
MaxRegUpdates == 4

\* Largest number of notification tasks enqueued in one behaviour.
MaxEnqueues == 2

\* Largest number of Application documents retention cleanup finds stored.
MaxStored == 2

\* Largest number of days that pass in one behaviour of retention cleanup.
MaxDays == 2

\* Days a CANCELLED or REJECTED Application is kept (app_cutoff).
app_retention_days == 30

\* Days without activity after which a user is marked inactive (cutoff_date).
user_retention_days == 90

\* Largest number of documents a paginated list holds.
MaxItems == 5

\* Largest page number a pagination callback carries.
MaxPage == 3

\* MAX_ITEMS_PER_PAGE as configured for the model (settings default: 10).
MAX_ITEMS_PER_PAGE == 2

\* Largest number of other active facilities of the district that sort before
\* the seeded one.
MaxBefore == 11

\* Largest number of seeder runs in one behaviour.
MaxRuns == 2
MaxCliRuns == 2
MaxCliRequests == 2
MaxCancelRequests == 2
MaxStatusRequests == 3
MaxActivityUpdates == 2

\* Default limit of FOKRepository.get_by_district.
get_by_district_limit == 10

\* RATE_LIMIT_REQUESTS as configured for the model (settings default: 30).
requests_limit == 3

\* Updates processed concurrently by the dispatcher.
Procs == {"p1", "p2"}

\* ------------------------------------------------------------ domain values

PENDING == "pending"
ACCEPTED == "accepted"
TRANSFERRED == "transferred"
COMPLETED == "completed"
CANCELLED == "cancelled"
REJECTED == "rejected"

ApplicationStatus == {PENDING, ACCEPTED, TRANSFERRED, COMPLETED, CANCELLED, REJECTED}

Terminal == {COMPLETED, CANCELLED, REJECTED}

\* Users known to the bot: u1 has shared a phone, u2 skipped the phone step,
\* adm is an administrator.
UserIds == {"u1", "u2", "adm"}
Applicants == {"u1", "u2"}
Admin == "adm"

\* Facilities in the catalog, and a facility id that is in no document.
FokIds == {"f1", "f2"}
MissingFok == "f0"

None == "none"

AdminKinds == {"admin_accept", "admin_transfer", "admin_complete", "admin_reject"}

\* ------------------------------------------------------------------- state

VARIABLES
    applications,   \* the applications collection: document id = index
    users,          \* the users collection, by user id
    foks,           \* the foks collection: total_applications by facility id
    req,            \* the updates in flight, one per dispatcher task
    received,       \* number of updates received so far
    only_submits,   \* every update received so far was a submit-application
    rl_key,         \* the key rate_limit:{id} of one user in the store
    rl_req,         \* that user's updates inside RateLimitMiddleware
    rl_issued,      \* updates that user has issued since the key last expired
    rl_clean,       \* those were issued one after another and the store answered
    um_docs,        \* the users collection as documents (user resolution)
    um_req,         \* the updates inside UserMiddleware
    um_received,    \* number of updates UserMiddleware has received
    fsm,            \* the FSM storage: conversation state by user id
    nt,             \* the notification task in the worker
    nt_enqueued,    \* number of notification tasks enqueued so far
    broker_up,      \* whether the task broker accepts an enqueue
    stored_applications, \* the applications collection as retention cleanup finds it
    stored_users,   \* the users collection as retention cleanup finds it
    utcnow,         \* the clock, in days
    cleanup_result, \* how the last cleanup_old_data task ended
    pg_store,       \* how many active documents each paginated collection holds
    pg_view,        \* the keyboard the last list handler rendered
    selected_sports, \* the selection kept in the conversation's FSM data
    sp_offered,     \* the sports some active facility offers
    sp_last,        \* the last sport-search callback and how it ended
    sd_districts,   \* the stored districts named like the seeded one
    sd_sports,      \* the stored sports named like the seeded one
    sd_foks,        \* the stored facilities of the seeded facility's district
    sd_unique,      \* whether the unique name indexes exist
    sd_runs,        \* the seeder runs so far and whether the last one raised
    rc,             \* the accessor's fields: which clients are set and the mode
    rc_up,          \* whether the key-value servers answer
    rc_last,        \* the last accessor call and how it ended
    tls_failing,    \* the external steps of the TLS manager that fail when run
    tls_last,       \* the last run of the TLS manager: its flow, the steps it ran, its exit code
    cli,            \* the admin CLI process: its command, target and loaded copy
    su_queue,       \* the status-update tasks the broker holds, oldest first
    su_last,        \* what the last status-update task run sent
    act_req         \* per task: the bot update of a stored user in progress and the copy it loaded

appVars == <<applications, users, foks, req, received, only_submits>>
rlVars == <<rl_key, rl_req, rl_issued, rl_clean>>
umVars == <<um_docs, um_req, um_received>>
regVars == <<fsm>>
ntVars == <<nt, nt_enqueued>>
brokerVars == <<broker_up>>
clVars == <<stored_applications, stored_users, utcnow, cleanup_result>>
pgVars == <<pg_store, pg_view>>
spVars == <<selected_sports, sp_offered, sp_last>>
sdVars == <<sd_districts, sd_sports, sd_foks, sd_unique, sd_runs>>
rcVars == <<rc, rc_up, rc_last>>
tlsVars == <<tls_failing, tls_last>>
cliVars == <<cli>>
suVars == <<su_queue, su_last>>
actVars == <<act_req>>
vars == <<applications, users, foks, req, received, only_submits,
          rl_key, rl_req, rl_issued, rl_clean, um_docs, um_req, um_received,
          fsm,
          nt, nt_enqueued,
          broker_up,
          stored_applications, stored_users, utcnow, cleanup_result,
          pg_store, pg_view,
          selected_sports, sp_offered, sp_last,
          sd_districts, sd_sports, sd_foks, sd_unique, sd_runs,
          rc, rc_up, rc_last,
          tls_failing, tls_last,
          cli,
          su_queue, su_last,
          act_req>>

\* What the actions of one part of the bot leave alone.
restOfApp == <<rlVars, umVars, regVars, ntVars, brokerVars, clVars, pgVars, spVars, sdVars, rcVars, tlsVars, cliVars, suVars, actVars>>
restOfRate == <<appVars, umVars, regVars, ntVars, brokerVars, clVars, pgVars, spVars, sdVars, rcVars, tlsVars, cliVars, suVars, actVars>>
restOfUser == <<appVars, rlVars, regVars, ntVars, brokerVars, clVars, pgVars, spVars, sdVars, rcVars, tlsVars, cliVars, suVars, actVars>>
restOfNotify == <<appVars, rlVars, umVars, regVars, brokerVars, clVars, pgVars, spVars, sdVars, rcVars, tlsVars, cliVars, suVars, actVars>>
restOfReg == <<rlVars, umVars, ntVars, brokerVars, clVars, pgVars, spVars, sdVars, rcVars, tlsVars, cliVars, suVars, actVars>>
restOfCleanup == <<appVars, rlVars, umVars, regVars, ntVars, brokerVars, pgVars, spVars, sdVars, rcVars, tlsVars, cliVars, suVars, actVars>>
restOfBroker == <<appVars, rlVars, umVars, regVars, ntVars, clVars, pgVars, spVars, sdVars, rcVars, tlsVars, cliVars, suVars, actVars>>
restOfSports == <<appVars, rlVars, umVars, regVars, ntVars, brokerVars, clVars, pgVars, sdVars, rcVars, tlsVars, cliVars, suVars, actVars>>
restOfPages == <<appVars, rlVars, umVars, regVars, ntVars, brokerVars, clVars, spVars, sdVars, rcVars, tlsVars, cliVars, suVars, actVars>>
restOfRedis == <<appVars, rlVars, umVars, regVars, ntVars, brokerVars, clVars, pgVars, spVars, sdVars, tlsVars, cliVars, suVars, actVars>>
restOfSeed == <<appVars, rlVars, umVars, regVars, ntVars, brokerVars, clVars, pgVars, spVars, rcVars, tlsVars, cliVars, suVars, actVars>>
restOfCli == <<rlVars, umVars, regVars, ntVars, brokerVars, clVars, pgVars, spVars, sdVars, rcVars, tlsVars, suVars, actVars>>
restOfTls == <<appVars, rlVars, umVars, regVars, ntVars, brokerVars, clVars, pgVars, spVars, sdVars, rcVars, cliVars, suVars, actVars>>
restOfActivity == <<appVars, rlVars, umVars, regVars, ntVars, brokerVars, pgVars, spVars, sdVars, rcVars, tlsVars, cliVars, suVars>>
restOfStatus == <<rlVars, umVars, regVars, ntVars, brokerVars, clVars, pgVars, spVars, sdVars, rcVars, tlsVars, cliVars, actVars>>

\* ------------------------------------------------------------ the documents

\* Texts are sequences of characters; NoText stands for a message without
\* text (message.text is None).
NoText == <<>>

\* The display name UserMiddleware gives a new user (the first name).
FirstName == <<"A">>

Phones == {"+71"}

\* User: the fields the handlers of this model read or write.  A user built
\* here has finished onboarding, with or without a phone.
User(phone_shared, is_admin) ==
    [phone_shared |-> phone_shared,
     phone |-> IF phone_shared THEN "+70" ELSE None,
     display_name |-> FirstName, registration_completed |-> TRUE,
     is_admin |-> is_admin, is_super_admin |-> FALSE, is_blocked |-> FALSE,
     total_applications |-> 0]

NoUser == User(FALSE, FALSE)

can_make_applications(user) == user.phone_shared /\ user.phone # None

\* Application as constructed in apply_to_fok: status PENDING, no timestamps
\* other than created_at, is_active True.
Application(user_id, fok_id) ==
    [user_id |-> user_id, fok_id |-> fok_id, status |-> PENDING,
     status_updated_at |-> FALSE, completed_at |-> FALSE, cancelled_at |-> FALSE,
     updated_at |-> FALSE, processed_by |-> None, is_active |-> TRUE]

NoApp == [Application(None, None) EXCEPT !.status = None]

can_be_cancelled(app) == app.status \in {PENDING, ACCEPTED}

update_status_no_stamp(app, new_status, processed_by) ==
    [app EXCEPT !.status = new_status, !.updated_at = TRUE,
                !.processed_by = IF processed_by # None THEN processed_by ELSE @]

update_status(app, new_status, processed_by) ==
    [app EXCEPT
        !.status = new_status,
        !.status_updated_at = TRUE,
        !.updated_at = TRUE,
        !.processed_by = IF processed_by # None THEN processed_by ELSE @,
        !.completed_at = IF new_status = COMPLETED THEN TRUE ELSE @,
        !.cancelled_at = IF new_status = CANCELLED THEN TRUE ELSE @]

\* ---------------------------------------------------------- the repositories

find_by_id(coll, id) == IF id \in DOMAIN coll THEN coll[id] ELSE NoApp

\* BaseRepository.update: stamp updated_at, then $set every field of the
\* caller's copy on the document with that id (no upsert).
repo_update(coll, id, obj) ==
    IF id \in DOMAIN coll
    THEN [coll EXCEPT ![id] = [obj EXCEPT !.updated_at = TRUE]]
    ELSE coll

user_update(coll, id, obj) == [coll EXCEPT ![id] = obj]

LiveIds(coll, user_id, fok_id) ==
    {i \in DOMAIN coll :
        /\ coll[i].user_id = user_id
        /\ coll[i].fok_id = fok_id
        /\ coll[i].status \notin {CANCELLED, REJECTED}
        /\ coll[i].is_active}

has_user_applied_any_status(coll, user_id, fok_id) ==
    \E i \in DOMAIN coll :
        coll[i].user_id = user_id /\ coll[i].fok_id = fok_id

has_user_applied_pending_only(coll, user_id, fok_id) ==
    \E i \in DOMAIN coll :
        /\ coll[i].user_id = user_id
        /\ coll[i].fok_id = fok_id
        /\ coll[i].status = PENDING

has_user_applied_to_fok(coll, user_id, fok_id) ==
    Cardinality(LiveIds(coll, user_id, fok_id)) > 0

increment_applications_count(coll, fok_id) ==
    IF fok_id \in DOMAIN coll THEN [coll EXCEPT ![fok_id] = @ + 1] ELSE coll

\* The names app.utils.metrics defines at module level; a
\* "from app.utils.metrics import X" of any other name raises ImportError.
MetricsExports ==
    {"bot_registry", "bot_info", "http_requests_total",
     "http_request_duration_seconds", "telegram_updates_total",
     "telegram_messages_sent_total", "telegram_commands_total",
     "telegram_callback_queries_total", "active_users_total",
     "user_registrations_total", "applications_submitted_total",
     "applications_processed_total", "database_operations_total",
     "database_operation_duration_seconds", "database_connections_active",
     "cache_operations_total", "cache_operation_duration_seconds",
     "celery_tasks_total", "celery_task_duration_seconds", "celery_queue_length",
     "errors_total", "rate_limit_hits_total", "MetricsCollector", "metrics",
     "track_time", "track_database_operation", "track_cache_operation"}

ImportFails(name) == name \notin MetricsExports

\* ------------------------------------------------------------- the requests

Idle == [pc |-> "idle", kind |-> None, uid |-> None, fok |-> None, app_id |-> 0,
         user |-> NoUser, has_user |-> FALSE, app |-> NoApp, answer |-> None,
         text |-> NoText, contact |-> None]

Waiting(p) == req[p].pc \in {"idle", "done"}

InFlightApplies == {p \in Procs : ~Waiting(p) /\ req[p].kind = "apply"}

\* The handler returns: the task keeps what it was asked and what it answered.
Finish(p, answer) ==
    req' = [req EXCEPT ![p] = [@ EXCEPT !.pc = "done", !.answer = answer,
                                        !.user = NoUser, !.has_user = FALSE,
                                        !.app = NoApp]]

Goto(p, pc) == req' = [req EXCEPT ![p].pc = pc]

\* An update arrives and is handed to a dispatcher task.  Any callback payload
\* may arrive at any time (a button of an old message stays pressable).  The
\* admin callbacks are sent by the administrator, whom AdminMiddleware admits.
Receive(p) ==
    /\ Waiting(p)
    /\ received < MaxRequests
    /\ received' = received + 1
    /\ \/ \E u \in Applicants, f \in FokIds \cup {MissingFok} :
            /\ Len(applications) + Cardinality(InFlightApplies) < MaxApps
            /\ req' = [req EXCEPT ![p] =
                        [Idle EXCEPT !.pc = "mw_find", !.kind = "apply",
                                     !.uid = u, !.fok = f]]
            /\ UNCHANGED only_submits
       \/ \E u \in Applicants, a \in 1..MaxApps :
            /\ req' = [req EXCEPT ![p] =
                        [Idle EXCEPT !.pc = "mw_find", !.kind = "confirm_cancel",
                                     !.uid = u, !.app_id = a]]
            /\ only_submits' = FALSE
       \/ \E k \in AdminKinds, a \in 1..MaxApps :
            /\ req' = [req EXCEPT ![p] =
                        [Idle EXCEPT !.pc = "mw_find", !.kind = k,
                                     !.uid = Admin, !.app_id = a]]
            /\ only_submits' = FALSE
    /\ UNCHANGED <<applications, users, foks, restOfApp>>

\* UserMiddleware: find_by_telegram_id, then write the loaded copy back.
user_middleware_find(p) ==
    /\ req[p].pc = "mw_find"
    /\ req' = [req EXCEPT ![p] = [@ EXCEPT !.user = users[req[p].uid],
                                           !.pc = "mw_update"]]
    /\ UNCHANGED <<applications, users, foks, received, only_submits, restOfApp>>

user_middleware_update(p) ==
    /\ req[p].pc = "mw_update"
    /\ users' = user_update(users, req[p].uid, req[p].user)
    /\ req' = [req EXCEPT ![p] = [@ EXCEPT !.has_user = TRUE, !.pc = "handler"]]
    /\ UNCHANGED <<applications, foks, received, only_submits, restOfApp>>

UserMiddleware(p) == user_middleware_find(p) \/ user_middleware_update(p)

\* ------------------------------------------------------------ apply_to_fok

apply_find_fok(p) ==
    /\ req[p].pc = "handler"
    /\ req[p].kind = "apply"
    /\ IF ~can_make_applications(req[p].user) THEN Finish(p, "need_phone")
       ELSE IF req[p].fok \notin DOMAIN foks THEN Finish(p, "fok_not_found")
       ELSE Goto(p, "apply_check")
    /\ UNCHANGED <<applications, users, foks, received, only_submits, restOfApp>>

apply_check(p) ==
    /\ req[p].pc = "apply_check"
    /\ IF has_user_applied_to_fok(applications, req[p].uid, req[p].fok)
       THEN Finish(p, "already_applied")
       ELSE Goto(p, "apply_create")
    /\ UNCHANGED <<applications, users, foks, received, only_submits, restOfApp>>

apply_create(p) ==
    /\ req[p].pc = "apply_create"
    /\ applications' = Append(applications, Application(req[p].uid, req[p].fok))
    /\ Goto(p, "apply_inc_fok")
    /\ UNCHANGED <<users, foks, received, only_submits, restOfApp>>

apply_inc_fok(p) ==
    /\ req[p].pc = "apply_inc_fok"
    /\ foks' = increment_applications_count(foks, req[p].fok)
    /\ Goto(p, "apply_update_user")
    /\ UNCHANGED <<applications, users, received, only_submits, restOfApp>>

\* user.total_applications += 1 on the copy the middleware loaded, written
\* back whole; then the import of record_application_created.
apply_update_user(p) ==
    /\ req[p].pc = "apply_update_user"
    /\ LET user == [req[p].user EXCEPT !.total_applications = @ + 1]
       IN /\ users' = user_update(users, req[p].uid, user)
          /\ req' = [req EXCEPT ![p] =
                [@ EXCEPT !.user = NoUser, !.pc = "done",
                          !.answer = IF ImportFails("record_application_created")
                                     THEN "error" ELSE "submitted"]]
    /\ UNCHANGED <<applications, foks, received, only_submits, restOfApp>>

apply_to_fok(p) ==
    \/ apply_find_fok(p)
    \/ apply_check(p)
    \/ apply_create(p)
    \/ apply_inc_fok(p)
    \/ apply_update_user(p)

\* ----------------------------------------------- confirm_cancel_application

\* application_card's access check: the owner or any administrator.
card_access(application, id, user) == application.user_id = id \/ user.is_admin

\* The cancel handlers' access check: application.user_id != user.id refuses.
belongs_to_user(application, id, user) == application.user_id = id

\* cancel_app_<id>: the same three checks, then the confirmation question;
\* nothing is written.
cancel_application_confirm(p) ==
    /\ req[p].pc = "handler"
    /\ req[p].kind = "cancel_app"
    /\ LET application == find_by_id(applications, req[p].app_id)
       IN IF application = NoApp THEN Finish(p, "not_found")
          ELSE IF ~belongs_to_user(application, req[p].uid, req[p].user)
               THEN Finish(p, "no_access")
          ELSE IF ~can_be_cancelled(application) THEN Finish(p, "cannot_cancel")
          ELSE Finish(p, "confirmation_asked")
    /\ UNCHANGED <<applications, users, foks, received, only_submits, restOfApp>>

confirm_cancel_find(p) ==
    /\ req[p].pc = "handler"
    /\ req[p].kind = "confirm_cancel"
    /\ LET application == find_by_id(applications, req[p].app_id)
       IN IF application = NoApp THEN Finish(p, "not_found")
          ELSE IF ~belongs_to_user(application, req[p].uid, req[p].user)
               THEN Finish(p, "no_access")
          ELSE IF ~can_be_cancelled(application) THEN Finish(p, "cannot_cancel")
          ELSE req' = [req EXCEPT ![p] = [@ EXCEPT !.app = application,
                                                   !.pc = "cancel_write"]]
    /\ UNCHANGED <<applications, users, foks, received, only_submits, restOfApp>>

confirm_cancel_write(p) ==
    /\ req[p].pc = "cancel_write"
    /\ LET application == update_status(req[p].app, CANCELLED, None)
       IN /\ applications' = repo_update(applications, req[p].app_id, application)
          /\ req' = [req EXCEPT ![p] = [@ EXCEPT !.app = NoApp, !.pc = "done",
                                                 !.answer = "cancelled"]]
    /\ UNCHANGED <<users, foks, received, only_submits, restOfApp>>

confirm_cancel_application(p) == confirm_cancel_find(p) \/ confirm_cancel_write(p)

\* Either cancel button is pressed by any user, the administrator included,
\* for any application id.
cancel_receive(p) ==
    /\ Waiting(p)
    /\ received < MaxCancelRequests
    /\ received' = received + 1
    /\ only_submits' = FALSE
    /\ \E u \in UserIds, k \in {"cancel_app", "confirm_cancel"},
          a \in 1..(Len(applications) + 1) :
            req' = [req EXCEPT ![p] =
                        [Idle EXCEPT !.pc = "mw_find", !.kind = k,
                                     !.uid = u, !.app_id = a]]
    /\ UNCHANGED <<applications, users, foks, restOfApp>>

\* --------------------------------------------------- the admin transitions

AdminFind(p, kind) ==
    /\ req[p].pc = "handler"
    /\ req[p].kind = kind
    /\ LET application == find_by_id(applications, req[p].app_id)
       IN IF application = NoApp THEN Finish(p, "not_found")
          ELSE req' = [req EXCEPT ![p] = [@ EXCEPT !.app = application,
                                                   !.pc = "admin_write"]]
    /\ UNCHANGED <<applications, users, foks, received, only_submits, restOfApp>>

\* What the admin is shown after the write: the enqueue of the applicant's
\* notification sits in the handler's try block before the toast, so when it
\* raises the except branch answers with the generic error alert instead.
after_enqueue(enqueued, new_status) ==
    IF enqueued THEN new_status ELSE "error"

\* update_status on the copy read by AdminFind, then BaseRepository.update.
\* The enqueue of the applicant's notification, the toast and the re-rendered
\* card that follow touch no stored document; the enqueue raises when the
\* broker does not accept it.
AdminWrite(p, kind, new_status) ==
    /\ req[p].pc = "admin_write"
    /\ req[p].kind = kind
    /\ LET application == update_status(req[p].app, new_status, req[p].uid)
       IN /\ applications' = repo_update(applications, req[p].app_id, application)
          /\ req' = [req EXCEPT ![p] =
                        [@ EXCEPT !.app = NoApp, !.pc = "done",
                                  !.answer = after_enqueue(broker_up, new_status)]]
    /\ UNCHANGED <<users, foks, received, only_submits, restOfApp>>

admin_accept_application(p) ==
    AdminFind(p, "admin_accept") \/ AdminWrite(p, "admin_accept", ACCEPTED)

admin_transfer_application(p) ==
    AdminFind(p, "admin_transfer") \/ AdminWrite(p, "admin_transfer", TRANSFERRED)

admin_complete_application(p) ==
    AdminFind(p, "admin_complete") \/ AdminWrite(p, "admin_complete", COMPLETED)

admin_reject_application(p) ==
    AdminFind(p, "admin_reject") \/ AdminWrite(p, "admin_reject", REJECTED)

\* ------------------------------------------- send_application_status_update

StatusTask(application_id, old_status, new_status) ==
    [application_id |-> application_id, old_status |-> old_status,
     new_status |-> new_status]

NoDelivery == [task |-> StatusTask(0, None, None), chat |-> None, announced |-> None]

\* An admin callback for the stored application arrives.
status_receive(p) ==
    /\ Waiting(p)
    /\ received < MaxStatusRequests
    /\ received' = received + 1
    /\ only_submits' = FALSE
    /\ \E k \in AdminKinds, a \in 1..Len(applications) :
            req' = [req EXCEPT ![p] =
                        [Idle EXCEPT !.pc = "mw_find", !.kind = k,
                                     !.uid = Admin, !.app_id = a]]
    /\ UNCHANGED <<applications, users, foks, restOfApp>>

\* The write of an admin transition with the broker's queue in view:
\* send_application_status_update.delay(id, old_status, new_status) follows
\* application_repo.update.
admin_write_and_enqueue(p, kind, new_status) ==
    /\ req[p].pc = "admin_write"
    /\ req[p].kind = kind
    /\ LET application == update_status(req[p].app, new_status, req[p].uid)
       IN /\ applications' = repo_update(applications, req[p].app_id, application)
          /\ req' = [req EXCEPT ![p] =
                        [@ EXCEPT !.app = NoApp, !.pc = "done",
                                  !.answer = after_enqueue(broker_up, new_status)]]
    /\ su_queue' = IF broker_up
                   THEN Append(su_queue, StatusTask(req[p].app_id, req[p].app.status,
                                                    new_status))
                   ELSE su_queue
    /\ UNCHANGED <<users, foks, received, only_submits, su_last, restOfStatus>>

accept_and_notify(p) ==
    AdminFind(p, "admin_accept") \/ admin_write_and_enqueue(p, "admin_accept", ACCEPTED)

transfer_and_notify(p) ==
    AdminFind(p, "admin_transfer")
        \/ admin_write_and_enqueue(p, "admin_transfer", TRANSFERRED)

complete_and_notify(p) ==
    AdminFind(p, "admin_complete")
        \/ admin_write_and_enqueue(p, "admin_complete", COMPLETED)

reject_and_notify(p) ==
    AdminFind(p, "admin_reject") \/ admin_write_and_enqueue(p, "admin_reject", REJECTED)

\* The status the message is chosen by: status_messages.get(application.status,
\* ...) of the application as find_by_id returns it when the task runs.
status_of_stored(task, application) == application.status

\* The worker runs the oldest task: the application is read, the message is
\* chosen and sent to application.user_telegram_id; with no such application
\* the task logs and returns.
send_application_status_update ==
    /\ su_queue # <<>>
    /\ LET task == Head(su_queue)
           application == find_by_id(applications, task.application_id)
       IN su_last' = IF application = NoApp
                     THEN [task |-> task, chat |-> None, announced |-> None]
                     ELSE [task |-> task, chat |-> application.user_id,
                           announced |-> status_of_stored(task, application)]
    /\ su_queue' = Tail(su_queue)
    /\ UNCHANGED <<appVars, restOfStatus>>

\* --------------------------------------------------------- AdminMiddleware

\* settings.super_admin_ids_list: the platform ids configured as super admins.
super_admin_ids_list == {"u2"}

has_admin_rights_open(uid, user) == TRUE

\* The admin_only check passes unless the user is neither flagged is_admin nor
\* is_super_admin nor listed in the settings.
has_admin_rights(uid, user) ==
    user.is_admin \/ user.is_super_admin \/ uid \in super_admin_ids_list

\* An admin callback arrives from any user: the payload of a button is text
\* any client can send.
gate_receive(p) ==
    /\ Waiting(p)
    /\ received < MaxGateRequests
    /\ received' = received + 1
    /\ only_submits' = FALSE
    /\ \E u \in UserIds, k \in AdminKinds, a \in 1..(Len(applications) + 1) :
            req' = [req EXCEPT ![p] =
                        [Idle EXCEPT !.pc = "mw_find", !.kind = k,
                                     !.uid = u, !.app_id = a]]
    /\ UNCHANGED <<applications, users, foks, restOfApp>>

\* UserMiddleware's except branch: the lookup or the update raised, the error
\* is logged and the handler is called with no "user" in the data.
user_middleware_fails(p) ==
    /\ req[p].pc \in {"mw_find", "mw_update"}
    /\ req' = [req EXCEPT ![p] = [@ EXCEPT !.user = NoUser, !.has_user = FALSE,
                                           !.pc = "handler"]]
    /\ UNCHANGED <<applications, users, foks, received, only_submits, restOfApp>>

\* The router's inner middleware runs right before the matched handler; it
\* has no await before the handler's first statement on the admitting path.
\* With no user in the data it returns without answering; a user without
\* rights gets the alert; otherwise the handler starts.
AdminMiddleware(p, kind) ==
    /\ req[p].pc = "handler"
    /\ req[p].kind = kind
    /\ \/ /\ ~req[p].has_user
          /\ Finish(p, None)
          /\ UNCHANGED <<applications, users, foks, received, only_submits,
                         restOfApp>>
       \/ /\ req[p].has_user
          /\ ~has_admin_rights(req[p].uid, req[p].user)
          /\ Finish(p, "no_rights")
          /\ UNCHANGED <<applications, users, foks, received, only_submits,
                         restOfApp>>
       \/ /\ req[p].has_user
          /\ has_admin_rights(req[p].uid, req[p].user)
          /\ AdminFind(p, kind)

admin_router(p) ==
    \/ AdminMiddleware(p, "admin_accept")
    \/ AdminWrite(p, "admin_accept", ACCEPTED)
    \/ AdminMiddleware(p, "admin_transfer")
    \/ AdminWrite(p, "admin_transfer", TRANSFERRED)
    \/ AdminMiddleware(p, "admin_complete")
    \/ AdminWrite(p, "admin_complete", COMPLETED)
    \/ AdminMiddleware(p, "admin_reject")
    \/ AdminWrite(p, "admin_reject", REJECTED)

\* ------------------------------------------------------ RateLimitMiddleware

\* The key rate_limit:{user_id}: value 0 stands for an absent key (GET
\* returns None); ttl says whether the key carries an expiry.
NoKey == [value |-> 0, ttl |-> FALSE]

redis_setex(key, value) == [value |-> value, ttl |-> TRUE]

\* INCR creates an absent key with value 1 and leaves the expiry as it is.
redis_incr(key) == [key EXCEPT !.value = @ + 1]

RlIdle == [pc |-> "idle", current |-> 0, seq |-> 0, handled |-> 0,
           answered |-> FALSE, error |-> None, raised |-> FALSE]

RlWaiting(p) == rl_req[p].pc \in {"idle", "done"}

on_exception_propagate(r, error) ==
    [r EXCEPT !.error = error, !.raised = TRUE, !.pc = "done"]

\* except Exception: log, then fall through to "return await handler(...)".
on_exception(r, error) == [r EXCEPT !.error = error, !.pc = "handler"]

\* The branch taken when current_requests >= requests_limit.
rate_limit_exceeded(r) ==
    IF ImportFails("record_rate_limit_hit")
    THEN on_exception(r, "import")
    ELSE [r EXCEPT !.answered = TRUE, !.pc = "done"]

\* An update of the user enters the middleware.
rl_receive(p) ==
    /\ RlWaiting(p)
    /\ rl_issued < requests_limit + 2
    /\ rl_issued' = rl_issued + 1
    /\ rl_clean' = (rl_clean /\ \A q \in Procs : RlWaiting(q))
    /\ rl_req' = [rl_req EXCEPT ![p] =
                    [RlIdle EXCEPT !.pc = "get", !.seq = rl_issued + 1]]
    /\ UNCHANGED <<rl_key, restOfRate>>

rl_get(p) ==
    /\ rl_req[p].pc = "get"
    /\ \/ /\ rl_req' = [rl_req EXCEPT ![p] = on_exception(@, "store")]
          /\ rl_clean' = FALSE
       \/ /\ rl_req' = [rl_req EXCEPT ![p] =
                IF rl_key.value = 0 THEN [@ EXCEPT !.pc = "setex"]
                ELSE IF rl_key.value >= requests_limit
                     THEN rate_limit_exceeded([@ EXCEPT !.current = rl_key.value])
                     ELSE [@ EXCEPT !.current = rl_key.value, !.pc = "incr"]]
          /\ UNCHANGED rl_clean
    /\ UNCHANGED <<rl_key, rl_issued, restOfRate>>

rl_setex(p) ==
    /\ rl_req[p].pc = "setex"
    /\ \/ /\ rl_req' = [rl_req EXCEPT ![p] = on_exception(@, "store")]
          /\ rl_clean' = FALSE
          /\ UNCHANGED rl_key
       \/ /\ rl_key' = redis_setex(rl_key, 1)
          /\ rl_req' = [rl_req EXCEPT ![p] = [@ EXCEPT !.current = 1, !.pc = "handler"]]
          /\ UNCHANGED rl_clean
    /\ UNCHANGED <<rl_issued, restOfRate>>

rl_incr(p) ==
    /\ rl_req[p].pc = "incr"
    /\ \/ /\ rl_req' = [rl_req EXCEPT ![p] = on_exception(@, "store")]
          /\ rl_clean' = FALSE
          /\ UNCHANGED rl_key
       \/ /\ rl_key' = redis_incr(rl_key)
          /\ rl_req' = [rl_req EXCEPT ![p].pc = "handler"]
          /\ UNCHANGED rl_clean
    /\ UNCHANGED <<rl_issued, restOfRate>>

rl_handler(p) ==
    /\ rl_req[p].pc = "handler"
    /\ rl_req' = [rl_req EXCEPT ![p] = [@ EXCEPT !.handled = @ + 1, !.pc = "done"]]
    /\ UNCHANGED <<rl_key, rl_issued, rl_clean, restOfRate>>

RateLimitMiddleware(p) ==
    \/ rl_get(p)
    \/ rl_setex(p)
    \/ rl_incr(p)
    \/ rl_handler(p)

\* The window elapses: the store drops a key that carries an expiry.
rl_expire ==
    /\ rl_key.value > 0
    /\ rl_key.ttl
    /\ rl_key' = NoKey
    /\ rl_issued' = 0
    /\ rl_clean' = \A q \in Procs : RlWaiting(q)
    /\ UNCHANGED <<rl_req, restOfRate>>

\* ------------------------------------------- UserMiddleware (user resolution)

\* Platform ids and the profile fields an update carries for them.
TelegramIds == {"x1", "x2"}
Profiles ==
    {[username |-> "ann", first_name |-> None, last_name |-> None],
     [username |-> "ann", first_name |-> "Ann", last_name |-> "Lee"],
     [username |-> "ann_k", first_name |-> "Ann", last_name |-> None]}

\* The localized "User" placeholder for a missing first name.
Placeholder == "Polzovatel"

\* User(...) as constructed for an unseen platform id.  Timestamps are the
\* ordinal of the update that set them, 0 for unset.
NewUser(tg) ==
    [id |-> 0, telegram_id |-> tg.id, username |-> tg.username,
     first_name |-> IF tg.first_name = None THEN Placeholder ELSE tg.first_name,
     last_name |-> tg.last_name,
     display_name |-> IF tg.first_name = None THEN Placeholder ELSE tg.first_name,
     last_activity |-> 0, updated_at |-> 0]

NoDoc == [id |-> 0, telegram_id |-> None, username |-> None, first_name |-> None,
          last_name |-> None, display_name |-> None,
          last_activity |-> 0, updated_at |-> 0]

find_by_telegram_id(docs, telegram_id) ==
    IF \E i \in DOMAIN docs : docs[i].telegram_id = telegram_id
    THEN docs[CHOOSE i \in DOMAIN docs : docs[i].telegram_id = telegram_id]
    ELSE NoDoc

refresh_profile_raw_first_name(user, tg) ==
    [user EXCEPT !.username = tg.username, !.first_name = tg.first_name,
                 !.last_name = tg.last_name]

\* "Update user info if changed": each field that differs is overwritten.
refresh_profile(user, tg) ==
    [user EXCEPT
        !.username = IF @ # tg.username THEN tg.username ELSE @,
        !.first_name = IF @ # tg.first_name
                       THEN (IF tg.first_name = None THEN Placeholder
                             ELSE tg.first_name)
                       ELSE @,
        !.last_name = IF @ # tg.last_name THEN tg.last_name ELSE @]

update_activity(user, now) == [user EXCEPT !.last_activity = now]

unique_index_absent(docs, telegram_id) == FALSE

\* The unique index on users.telegram_id: an insert of a second document with
\* the same telegram_id raises DuplicateKeyError.
unique_index_violated(docs, telegram_id) ==
    \E i \in DOMAIN docs : docs[i].telegram_id = telegram_id

\* BaseRepository.create: insert_one, the new _id set on the object.
repo_create(docs, obj) == Append(docs, [obj EXCEPT !.id = Len(docs) + 1])

\* BaseRepository.update on a user: stamp updated_at, $set the whole copy.
repo_update_user(docs, obj, now) ==
    IF obj.id \in DOMAIN docs
    THEN [docs EXCEPT ![obj.id] = [obj EXCEPT !.updated_at = now]]
    ELSE docs

UmIdle == [pc |-> "idle", tg |-> [id |-> None, username |-> None,
                                  first_name |-> None, last_name |-> None],
           now |-> 0, user |-> NoDoc, has_user |-> FALSE, handled |-> 0,
           error |-> None, raised |-> FALSE]

UmWaiting(p) == um_req[p].pc \in {"idle", "done"}

um_on_exception_keep_user(r, error) ==
    [r EXCEPT !.error = error, !.has_user = TRUE, !.pc = "handler"]

\* except Exception: log, capture_error, continue without user context.
um_on_exception(r, error) ==
    [r EXCEPT !.error = error, !.user = NoDoc, !.has_user = FALSE, !.pc = "handler"]

um_receive(p) ==
    /\ UmWaiting(p)
    /\ um_received < MaxUserUpdates
    /\ um_received' = um_received + 1
    /\ \E x \in TelegramIds, pr \in Profiles :
         um_req' = [um_req EXCEPT ![p] =
            [UmIdle EXCEPT !.pc = "find", !.now = um_received + 1,
                           !.tg = [id |-> x, username |-> pr.username,
                                   first_name |-> pr.first_name,
                                   last_name |-> pr.last_name]]]
    /\ UNCHANGED <<um_docs, restOfUser>>

um_find(p) ==
    /\ um_req[p].pc = "find"
    /\ \/ um_req' = [um_req EXCEPT ![p] = um_on_exception(@, "find")]
       \/ LET user == find_by_telegram_id(um_docs, um_req[p].tg.id)
          IN um_req' = [um_req EXCEPT ![p] =
                IF user = NoDoc
                THEN [@ EXCEPT !.user = NewUser(um_req[p].tg), !.pc = "create"]
                ELSE [@ EXCEPT
                        !.user = update_activity(refresh_profile(user, um_req[p].tg),
                                                 um_req[p].now),
                        !.pc = "update"]]
    /\ UNCHANGED <<um_docs, um_received, restOfUser>>

um_create(p) ==
    /\ um_req[p].pc = "create"
    /\ \/ /\ um_req' = [um_req EXCEPT ![p] = um_on_exception(@, "create")]
          /\ UNCHANGED um_docs
       \/ IF unique_index_violated(um_docs, um_req[p].user.telegram_id)
          THEN /\ um_req' = [um_req EXCEPT ![p] = um_on_exception(@, "duplicate")]
               /\ UNCHANGED um_docs
          ELSE /\ um_docs' = repo_create(um_docs, um_req[p].user)
               /\ um_req' = [um_req EXCEPT ![p] =
                    [@ EXCEPT !.user = [@ EXCEPT !.id = Len(um_docs) + 1],
                              !.has_user = TRUE, !.pc = "handler"]]
    /\ UNCHANGED <<um_received, restOfUser>>

um_update(p) ==
    /\ um_req[p].pc = "update"
    /\ \/ /\ um_req' = [um_req EXCEPT ![p] = um_on_exception(@, "update")]
          /\ UNCHANGED um_docs
       \/ /\ um_docs' = repo_update_user(um_docs, um_req[p].user, um_req[p].now)
          /\ um_req' = [um_req EXCEPT ![p] =
                [@ EXCEPT !.user = [@ EXCEPT !.updated_at = um_req[p].now],
                          !.has_user = TRUE, !.pc = "handler"]]
    /\ UNCHANGED <<um_received, restOfUser>>

\* return await handler(event, data); the task then keeps only the outcome.
um_handler(p) ==
    /\ um_req[p].pc = "handler"
    /\ um_req' = [um_req EXCEPT ![p] =
            [@ EXCEPT !.handled = @ + 1, !.pc = "done", !.user = NoDoc,
                      !.tg = [UmIdle.tg EXCEPT !.id = um_req[p].tg.id]]]
    /\ UNCHANGED <<um_docs, um_received, restOfUser>>

UserResolution(p) ==
    \/ um_find(p)
    \/ um_create(p)
    \/ um_update(p)
    \/ um_handler(p)

\* --------------------------------------------------------------- onboarding

\* RegistrationStates; None is the cleared state.
waiting_for_name == "waiting_for_name"
waiting_for_phone == "waiting_for_phone"

T_start == <<"/", "s", "t", "a", "r", "t">>
T_menu == <<"/", "m", "e", "n", "u">>
T_skip == <<"/", "s", "k", "i", "p">>
\* The caption of the skip button (a cross mark and a word in the source).
T_skip_button == <<"x", " ", "S", "k", "i", "p">>

SkipTokens == {T_skip_button, T_skip}

\* The texts a message of the model may carry: the commands, the skip
\* button, a name that is too short once trimmed and a name that is not.
Texts == {T_start, T_menu, T_skip, T_skip_button,
          <<" ", "a", " ">>, <<" ", "a", "b">>}

RECURSIVE lstrip(_)
lstrip(text) ==
    IF text # <<>> /\ Head(text) = " " THEN lstrip(Tail(text)) ELSE text

RECURSIVE rstrip(_)
rstrip(text) ==
    IF text # <<>> /\ text[Len(text)] = " "
    THEN rstrip(SubSeq(text, 1, Len(text) - 1))
    ELSE text

strip_identity(text) == text

\* str.strip()
strip(text) == rstrip(lstrip(text))

RECURSIVE take_word(_)
take_word(text) ==
    IF text = <<>> \/ Head(text) = " " THEN <<>>
    ELSE <<Head(text)>> \o take_word(Tail(text))

\* The command filter looks at text.split(maxsplit=1)[0].
command_of(text) == take_word(lstrip(text))

CommandStart(text) == command_of(text) = T_start

Command_menu(text) == command_of(text) = T_menu

start_router_menu_first(text, contact, state) ==
    IF CommandStart(text) THEN "start_command"
    ELSE IF Command_menu(text) THEN "menu_command"
    ELSE IF state = waiting_for_name THEN "process_name"
    ELSE IF state = waiting_for_phone /\ contact # None
        THEN "process_phone_contact"
    ELSE IF state = waiting_for_phone /\ text \in SkipTokens THEN "skip_phone"
    ELSE IF state = waiting_for_phone THEN "invalid_phone_input"
    ELSE "unhandled"

start_router_state_first(text, contact, state) ==
    IF state = waiting_for_name THEN "process_name"
    ELSE IF state = waiting_for_phone /\ contact # None
        THEN "process_phone_contact"
    ELSE IF state = waiting_for_phone /\ text \in SkipTokens THEN "skip_phone"
    ELSE IF state = waiting_for_phone THEN "invalid_phone_input"
    ELSE IF CommandStart(text) THEN "start_command"
    ELSE IF Command_menu(text) THEN "menu_command"
    ELSE "unhandled"

\* The message handlers of the start router in registration order: the first
\* whose filters accept the message runs.
start_router(text, contact, state) ==
    IF CommandStart(text) THEN "start_command"
    ELSE IF state = waiting_for_name THEN "process_name"
    ELSE IF state = waiting_for_phone /\ contact # None
        THEN "process_phone_contact"
    ELSE IF state = waiting_for_phone /\ text \in SkipTokens THEN "skip_phone"
    ELSE IF state = waiting_for_phone THEN "invalid_phone_input"
    ELSE IF Command_menu(text) THEN "menu_command"
    ELSE "unhandled"

with_contact_only_phone(user, phone_number) ==
    [user EXCEPT !.phone = phone_number, !.phone_shared = TRUE]

\* process_phone_contact's assignments to the resolved user.
with_contact(user, phone_number) ==
    [user EXCEPT !.phone = phone_number, !.phone_shared = TRUE,
                 !.registration_completed = TRUE]

\* skip_phone's assignments to the resolved user.
with_skip(user) ==
    [user EXCEPT !.phone_shared = FALSE, !.registration_completed = TRUE]

\* The user who goes through onboarding in this model.
RegUser == "u1"

\* A message or an apply callback of the onboarding user arrives.
reg_receive(p) ==
    /\ Waiting(p)
    /\ received < MaxRegUpdates
    /\ received' = received + 1
    /\ only_submits' = FALSE
    /\ \/ \E t \in Texts \cup {NoText} :
            req' = [req EXCEPT ![p] =
                        [Idle EXCEPT !.pc = "mw_find", !.kind = "message",
                                     !.uid = RegUser, !.text = t]]
       \/ \E c \in Phones :
            req' = [req EXCEPT ![p] =
                        [Idle EXCEPT !.pc = "mw_find", !.kind = "message",
                                     !.uid = RegUser, !.contact = c]]
       \/ /\ Len(applications) + Cardinality(InFlightApplies) < MaxApps
          /\ req' = [req EXCEPT ![p] =
                        [Idle EXCEPT !.pc = "mw_find", !.kind = "apply",
                                     !.uid = RegUser, !.fok = "f1"]]
    /\ UNCHANGED <<applications, users, foks, fsm, restOfReg>>

\* A message handler returns: the task keeps the message and the answer.
RegFinish(p, answer) ==
    req' = [req EXCEPT ![p] = [@ EXCEPT !.pc = "done", !.answer = answer,
                                        !.user = NoUser, !.has_user = FALSE]]

\* The message left the middlewares and the router picks this handler; the
\* state filter reads the FSM storage now.
Dispatched(p, name) ==
    /\ req[p].pc = "handler"
    /\ req[p].kind = "message"
    /\ start_router(req[p].text, req[p].contact, fsm[req[p].uid]) = name

set_state(p, state) == fsm' = [fsm EXCEPT ![req[p].uid] = state]

\* user_repo.update(user) with the handler's copy, then on to the next await.
RegWrite(p, from, to) ==
    /\ req[p].pc = from
    /\ users' = user_update(users, req[p].uid, req[p].user)
    /\ Goto(p, to)
    /\ UNCHANGED <<applications, foks, received, only_submits, fsm, restOfReg>>

\* state.clear() runs before the first await that suspends; set_state follows
\* the greeting, the main menu replaces it for a registered user.
start_command(p) ==
    \/ /\ Dispatched(p, "start_command")
       /\ set_state(p, None)
       /\ Goto(p, "start_answer")
       /\ UNCHANGED <<applications, users, foks, received, only_submits,
                      restOfReg>>
    \/ /\ req[p].pc = "start_answer"
       /\ IF ~req[p].user.registration_completed
          THEN set_state(p, waiting_for_name) /\ RegFinish(p, "ask_name")
          ELSE UNCHANGED fsm /\ RegFinish(p, "main_menu")
       /\ UNCHANGED <<applications, users, foks, received, only_submits,
                      restOfReg>>

process_name(p) ==
    \/ /\ Dispatched(p, "process_name")
       /\ IF req[p].text = NoText \/ Len(strip(req[p].text)) < 2
          THEN RegFinish(p, "reprompt_name")
          ELSE req' = [req EXCEPT ![p] =
                        [@ EXCEPT !.user.display_name = strip(req[p].text),
                                  !.pc = "name_write"]]
       /\ UNCHANGED <<applications, users, foks, received, only_submits, fsm,
                      restOfReg>>
    \/ RegWrite(p, "name_write", "name_answer")
    \/ /\ req[p].pc = "name_answer"
       /\ set_state(p, waiting_for_phone)
       /\ RegFinish(p, "ask_phone")
       /\ UNCHANGED <<applications, users, foks, received, only_submits,
                      restOfReg>>

process_phone_contact(p) ==
    \/ /\ Dispatched(p, "process_phone_contact")
       /\ req' = [req EXCEPT ![p] =
                    [@ EXCEPT !.user = with_contact(@, req[p].contact),
                              !.pc = "contact_write"]]
       /\ UNCHANGED <<applications, users, foks, received, only_submits, fsm,
                      restOfReg>>
    \/ RegWrite(p, "contact_write", "contact_answer")
    \/ /\ req[p].pc = "contact_answer"
       /\ set_state(p, None)
       /\ RegFinish(p, "main_menu")
       /\ UNCHANGED <<applications, users, foks, received, only_submits,
                      restOfReg>>

skip_phone(p) ==
    \/ /\ Dispatched(p, "skip_phone")
       /\ req' = [req EXCEPT ![p] = [@ EXCEPT !.user = with_skip(@),
                                              !.pc = "skip_write"]]
       /\ UNCHANGED <<applications, users, foks, received, only_submits, fsm,
                      restOfReg>>
    \/ RegWrite(p, "skip_write", "skip_answer")
    \/ /\ req[p].pc = "skip_answer"
       /\ set_state(p, None)
       /\ RegFinish(p, "main_menu")
       /\ UNCHANGED <<applications, users, foks, received, only_submits,
                      restOfReg>>

invalid_phone_input(p) ==
    /\ Dispatched(p, "invalid_phone_input")
    /\ RegFinish(p, "reprompt_phone")
    /\ UNCHANGED <<applications, users, foks, received, only_submits, fsm,
                   restOfReg>>

menu_command(p) ==
    /\ Dispatched(p, "menu_command")
    /\ RegFinish(p, "main_menu")
    /\ UNCHANGED <<applications, users, foks, received, only_submits, fsm,
                   restOfReg>>

\* No message handler of the start router accepts the message.
unhandled(p) ==
    /\ Dispatched(p, "unhandled")
    /\ RegFinish(p, "unhandled")
    /\ UNCHANGED <<applications, users, foks, received, only_submits, fsm,
                   restOfReg>>

\* ------------------------------------------------------- notification tasks

\* @celery_app.task(bind=True, max_retries=3)
max_retries == 3

NotifyKinds ==
    {"send_admin_notification", "send_user_notification",
     "send_bulk_notifications"}

\* settings.ADMIN_CHAT_ID as a recipient.
AdminChat == "chat"

\* The recipients of one attempt in the order the code sends to them: for the
\* admin notification the admin chat, the users get_admins returns, the ids
\* of super_admin_ids_list.
Recipients(kind) ==
    IF kind = "send_admin_notification" THEN <<AdminChat, Admin, "u2">>
    ELSE IF kind = "send_user_notification" THEN <<"u1">>
    ELSE <<"u1", "u2">>

\* Whether the send to the i-th recipient sits in its own try/except: the
\* admins and super admins of the admin notification, every user of the
\* bulk notification.
send_is_guarded(kind, i) ==
    \/ kind = "send_admin_notification" /\ i > 1
    \/ kind = "send_bulk_notifications"

may_retry_always(retries) == TRUE

\* if self.request.retries < self.max_retries: raise self.retry(...)
may_retry(retries) == retries < max_retries

\* delivered and repeated are kept for the whole life of one enqueued task:
\* the recipients a send has reached, and those reached more than once.
NtIdle == [pc |-> "idle", kind |-> None, retries |-> 0, executions |-> 0,
           idx |-> 0, attempted |-> {}, failed |-> {}, delivered |-> {},
           repeated |-> {}]

\* task.delay(...): a new task with request.retries = 0.
nt_enqueue ==
    /\ nt.pc \in {"idle", "success", "failure"}
    /\ nt_enqueued < MaxEnqueues
    /\ nt_enqueued' = nt_enqueued + 1
    /\ \E kind \in NotifyKinds :
            nt' = [NtIdle EXCEPT !.pc = "queued", !.kind = kind]
    /\ UNCHANGED restOfNotify

\* The worker runs the task body: one more execution.
nt_run ==
    /\ nt.pc = "queued"
    /\ nt' = [nt EXCEPT !.pc = "sending", !.executions = @ + 1, !.idx = 1,
                        !.attempted = {}, !.failed = {}]
    /\ UNCHANGED <<nt_enqueued, restOfNotify>>

\* bot.send_message to the next recipient; a failure outside a try/except
\* leaves the loop with the exception.
nt_send ==
    /\ nt.pc = "sending"
    /\ nt.idx <= Len(Recipients(nt.kind))
    /\ LET to == Recipients(nt.kind)[nt.idx]
       IN \E ok \in BOOLEAN :
            nt' = IF ok
                  THEN [nt EXCEPT !.attempted = @ \cup {to}, !.idx = @ + 1,
                                  !.delivered = @ \cup {to},
                                  !.repeated = IF to \in nt.delivered
                                               THEN @ \cup {to} ELSE @]
                  ELSE IF send_is_guarded(nt.kind, nt.idx)
                  THEN [nt EXCEPT !.attempted = @ \cup {to},
                                  !.failed = @ \cup {to}, !.idx = @ + 1]
                  ELSE [nt EXCEPT !.attempted = @ \cup {to},
                                  !.failed = @ \cup {to}, !.pc = "raised"]
    /\ UNCHANGED <<nt_enqueued, restOfNotify>>

\* user_repo.get_admins() raises: it is outside the per-recipient guards.
nt_get_admins_fails ==
    /\ nt.pc = "sending"
    /\ nt.kind = "send_admin_notification"
    /\ nt.idx = 2
    /\ nt' = [nt EXCEPT !.pc = "raised"]
    /\ UNCHANGED <<nt_enqueued, restOfNotify>>

\* finally: bot.session.close(), which may raise as well.
nt_close ==
    /\ nt.pc = "sending"
    /\ nt.idx > Len(Recipients(nt.kind))
    /\ \E ok \in BOOLEAN :
            nt' = [nt EXCEPT !.pc = IF ok THEN "success" ELSE "raised"]
    /\ UNCHANGED <<nt_enqueued, restOfNotify>>

\* except Exception: retry with countdown=60 while retries remain, else
\* re-raise: the task fails for good.
nt_on_exception ==
    /\ nt.pc = "raised"
    /\ nt' = IF may_retry(nt.retries)
             THEN [nt EXCEPT !.pc = "queued", !.retries = @ + 1]
             ELSE [nt EXCEPT !.pc = "failure"]
    /\ UNCHANGED <<nt_enqueued, restOfNotify>>

\* ------------------------------------------------------- retention cleanup

\* The day the clock shows when the behaviour starts.
FirstDay == user_retention_days + 1

StoredIds == 1..MaxStored

\* An Optional[datetime] field is the set of the at most one day it holds.
Unset == {}
At(day) == {day}

\* MongoDB's $lt: a missing or null field matches no comparison.
lt_or_equal(value, bound) == \E day \in value : day <= bound
lt(value, bound) == \E day \in value : day < bound

\* The filter of delete_many on the applications collection.
delete_filter(doc, app_cutoff) ==
    /\ doc.status \in {CANCELLED, REJECTED}
    /\ lt(doc.updated_at, app_cutoff)

\* delete_many: the documents the filter matches are removed, the others stay
\* as they are.
delete_many(docs, app_cutoff) ==
    [i \in {j \in DOMAIN docs : ~delete_filter(docs[j], app_cutoff)} |-> docs[i]]

\* update_many on the users collection.
update_many(docs, cutoff_date) ==
    [u \in DOMAIN docs |->
        IF lt(docs[u].last_activity, cutoff_date)
        THEN [docs[u] EXCEPT !.is_active = FALSE]
        ELSE docs[u]]

\* _cleanup_old_data, both writes done.
cleanup_old_data ==
    /\ stored_applications' =
           delete_many(stored_applications, utcnow - app_retention_days)
    /\ stored_users' = update_many(stored_users, utcnow - user_retention_days)
    /\ cleanup_result' = "success"
    /\ UNCHANGED <<utcnow, restOfCleanup>>

\* _cleanup_old_data when the users write raises: the deletion is done, the
\* task re-raises.
cleanup_users_write_fails ==
    /\ stored_applications' =
           delete_many(stored_applications, utcnow - app_retention_days)
    /\ cleanup_result' = "failure"
    /\ UNCHANGED <<stored_users, utcnow, restOfCleanup>>

\* _cleanup_old_data when the database cannot be reached or the deletion
\* raises: nothing is written, the task re-raises.
cleanup_delete_fails ==
    /\ cleanup_result' = "failure_before_delete"
    /\ UNCHANGED <<stored_applications, stored_users, utcnow, restOfCleanup>>

\* A day passes.
day_passes ==
    /\ utcnow < FirstDay + MaxDays
    /\ utcnow' = utcnow + 1
    /\ cleanup_result' = None
    /\ UNCHANGED <<stored_applications, stored_users, restOfCleanup>>

\* A bot update of a stored user while retention cleanup is scheduled:
\* UserMiddleware loads the user with find_by_telegram_id, which has no
\* is_active filter.
ActIdle == [pc |-> "idle", uid |-> None,
            user |-> [last_activity |-> Unset, is_active |-> TRUE], handled |-> 0]

activity_find(p) ==
    /\ act_req[p].pc \in {"idle", "done"}
    /\ act_req[p].handled < MaxActivityUpdates
    /\ \E u \in DOMAIN stored_users :
            act_req' = [act_req EXCEPT ![p] =
                            [@ EXCEPT !.pc = "loaded", !.uid = u,
                                      !.user = stored_users[u]]]
    /\ UNCHANGED <<clVars, restOfActivity>>

\* user.update_activity() on the loaded copy, then user_repo.update(user):
\* every field of the copy, is_active included, is $set on the document.
activity_update(p) ==
    /\ act_req[p].pc = "loaded"
    /\ stored_users' =
           [stored_users EXCEPT ![act_req[p].uid] =
                [act_req[p].user EXCEPT !.last_activity = At(utcnow)]]
    /\ act_req' = [act_req EXCEPT ![p] =
                        [@ EXCEPT !.pc = "done", !.handled = @ + 1,
                                  !.user = ActIdle.user]]
    /\ UNCHANGED <<stored_applications, utcnow, cleanup_result, restOfActivity>>

\* ------------------------------------------------------------ paginated lists

PagedLists == {"districts", "foks", "applications"}

Min(a, b) == IF a <= b THEN a ELSE b

\* The documents of a collection in the order of the repository's sort: the
\* k-th in that order is written k.
Sorted(n) == [k \in 1..n |-> k]

\* Python's list[start:end] for 0 <= start <= end.
Slice(list, start, end) ==
    IF start >= Len(list) THEN <<>>
    ELSE SubSeq(list, start + 1, Min(end, Len(list)))

\* cursor.skip(skip).limit(limit) on the sorted documents.
skip_limit(list, skip, limit) == Slice(list, skip, skip + limit)

\* DistrictRepository.get_all_active: every active district.
get_all_active == Sorted(pg_store["districts"])

get_by_district(skip, limit) == skip_limit(Sorted(pg_store["foks"]), skip, limit)

get_user_applications(skip, limit) ==
    skip_limit(Sorted(pg_store["applications"]), skip, limit)

\* What a list keyboard holds: the item buttons and the two pagination
\* controls.
Keyboard(list, page, shown, prev, next) ==
    [list |-> list, page |-> page, shown |-> shown, prev |-> prev, next |-> next]

NoView == Keyboard(None, 0, <<>>, FALSE, FALSE)

get_main_menu_keyboard == Keyboard("main_menu", 0, <<>>, FALSE, FALSE)

\* get_catalog_districts_keyboard and get_foks_keyboard: the slice of the list
\* they are given, 'prev' when page > 0, 'next' when end_idx < len(list).
paged_keyboard(name, list, page, per_page) ==
    LET start_idx == page * per_page
        end_idx == start_idx + per_page
    IN Keyboard(name, page, Slice(list, start_idx, end_idx),
                page > 0, end_idx < Len(list))

get_catalog_districts_keyboard(districts, page, per_page) ==
    paged_keyboard("districts", districts, page, per_page)

get_foks_keyboard(foks_list, page, per_page) ==
    paged_keyboard("foks", foks_list, page, per_page)

\* get_applications_keyboard: an empty list gets the 'submit first' button
\* and no pagination row.
get_applications_keyboard(apps, page, per_page) ==
    IF Len(apps) = 0 THEN Keyboard("applications", page, <<>>, FALSE, FALSE)
    ELSE paged_keyboard("applications", apps, page, per_page)

catalog_main ==
    /\ pg_view' =
          LET districts == get_all_active
          IN IF Len(districts) = 0 THEN get_main_menu_keyboard
             ELSE get_catalog_districts_keyboard(districts, 0,
                                                 MAX_ITEMS_PER_PAGE)
    /\ UNCHANGED <<pg_store, restOfPages>>

districts_page ==
    /\ \E page \in 0..MaxPage :
          pg_view' = get_catalog_districts_keyboard(get_all_active, page,
                                                    MAX_ITEMS_PER_PAGE)
    /\ UNCHANGED <<pg_store, restOfPages>>

\* The facilities of the district, or the districts again when it has none.
district_foks ==
    /\ pg_view' =
          LET foks_list == get_by_district(0, MAX_ITEMS_PER_PAGE)
          IN IF Len(foks_list) = 0
             THEN get_catalog_districts_keyboard(get_all_active, 0,
                                                 MAX_ITEMS_PER_PAGE)
             ELSE get_foks_keyboard(foks_list, 0, MAX_ITEMS_PER_PAGE)
    /\ UNCHANGED <<pg_store, restOfPages>>

foks_page ==
    /\ \E page \in 0..MaxPage :
          LET foks_list == get_by_district(page * MAX_ITEMS_PER_PAGE,
                                           MAX_ITEMS_PER_PAGE)
          IN pg_view' = get_foks_keyboard(foks_list, page, MAX_ITEMS_PER_PAGE)
    /\ UNCHANGED <<pg_store, restOfPages>>

my_applications ==
    /\ pg_view' =
          LET apps == get_user_applications(0, MAX_ITEMS_PER_PAGE)
          IN get_applications_keyboard(apps, 0, MAX_ITEMS_PER_PAGE)
    /\ UNCHANGED <<pg_store, restOfPages>>

applications_page ==
    /\ \E page \in 0..MaxPage :
          LET apps == get_user_applications(page * MAX_ITEMS_PER_PAGE,
                                            MAX_ITEMS_PER_PAGE)
          IN pg_view' = get_applications_keyboard(apps, page,
                                                  MAX_ITEMS_PER_PAGE)
    /\ UNCHANGED <<pg_store, restOfPages>>

\* ------------------------------------------------------------ sport selection

Sports == {"s1", "s2", "s3"}

\* Python's x in list.
In(x, list) == \E i \in DOMAIN list : list[i] = x

\* Python's list.remove(x): the first occurrence goes.
remove(list, x) ==
    LET first == CHOOSE i \in DOMAIN list :
                    list[i] = x /\ \A j \in 1..(i - 1) : list[j] # x
    IN [k \in 1..(Len(list) - 1) |-> IF k < first THEN list[k] ELSE list[k + 1]]

toggle_append(list, sport_name) == Append(list, sport_name)

\* The toggle of toggle_sport on the list read from the FSM data.
toggle(list, sport_name) ==
    IF In(sport_name, list) THEN remove(list, sport_name)
    ELSE Append(list, sport_name)

\* FOKRepository.search_by_sports finds a facility when one offers a selected
\* sport.
search_finds(sports) == \E i \in DOMAIN sports : sports[i] \in sp_offered

Callback(kind, sport_name, searched, answer) ==
    [kind |-> kind, sport |-> sport_name, searched |-> searched,
     answer |-> answer]

NoCallback == Callback(None, None, FALSE, None)

\* get_data, the toggle and update_data run without suspension on the
\* dispatcher's memory storage; the menu is re-rendered afterwards.
toggle_sport ==
    /\ \E sport_name \in Sports :
          /\ selected_sports' = toggle(selected_sports, sport_name)
          /\ sp_last' = Callback("toggle_sport", sport_name, FALSE, "menu")
    /\ UNCHANGED <<sp_offered, restOfSports>>

clear_sports ==
    /\ selected_sports' = <<>>
    /\ sp_last' = Callback("clear_sports", None, FALSE, "cleared")
    /\ UNCHANGED <<sp_offered, restOfSports>>

\* An empty selection is refused before the query; found facilities are put on
\* a keyboard through callback.types, which a CallbackQuery does not have, so
\* the handler's except branch answers.
search_by_sports ==
    /\ sp_last' =
          IF Len(selected_sports) = 0
          THEN Callback("search_by_sports", None, FALSE, "need_sport")
          ELSE IF ~search_finds(selected_sports)
          THEN Callback("search_by_sports", None, TRUE, "not_found")
          ELSE Callback("search_by_sports", None, TRUE, "error")
    /\ UNCHANGED <<selected_sports, sp_offered, restOfSports>>

\* ------------------------------------------------------------------ seeder

\* The documents of a collection that carry a seeded name: how many are
\* active and how many are not.
Named(active, inactive) == [active |-> active, inactive |-> inactive]

\* find_by_name of the district and sport repositories: active documents
\* only.
find_by_name(docs) == docs.active > 0

\* insert_one under a unique index on name: DuplicateKeyError when a document
\* of that name is stored, active or not.
insert_raises(docs, unique) == unique /\ docs.active + docs.inactive > 0

\* One pass of the loop over districts_data or sports_data.
seed_by_name(docs) ==
    IF find_by_name(docs) THEN docs ELSE [docs EXCEPT !.active = @ + 1]

seed_raises(docs, unique) == ~find_by_name(docs) /\ insert_raises(docs, unique)

\* get_by_district(district) with its default skip and limit, then the any()
\* over the names: a same-named active facility is seen when it is among the
\* first get_by_district_limit of the district's active facilities in sort
\* order, the `before` others that sort ahead of it included.
seen_in_district(docs, limit) == docs.active > 0 /\ docs.before < limit

seed_fok(docs) ==
    IF seen_in_district(docs, get_by_district_limit) THEN docs
    ELSE [docs EXCEPT !.active = @ + 1]

\* One run of init_sample_data: districts, then sports, then facilities; an
\* exception of an insert ends the script there.
init_sample_data ==
    /\ sd_runs.count < MaxRuns
    /\ IF seed_raises(sd_districts, sd_unique)
       THEN UNCHANGED <<sd_districts, sd_sports, sd_foks>>
       ELSE /\ sd_districts' = seed_by_name(sd_districts)
            /\ IF seed_raises(sd_sports, sd_unique)
               THEN UNCHANGED <<sd_sports, sd_foks>>
               ELSE /\ sd_sports' = seed_by_name(sd_sports)
                    /\ sd_foks' = seed_fok(sd_foks)
    /\ sd_runs' = [count |-> sd_runs.count + 1,
                   raised |-> \/ seed_raises(sd_districts, sd_unique)
                              \/ seed_raises(sd_sports, sd_unique)]
    /\ UNCHANGED <<sd_unique, restOfSeed>>

\* ------------------------------------------------- key-value store accessor

\* RedisClusterManager as constructed: no client, single-node mode.
NoClients == [cluster_client |-> FALSE, single_client |-> FALSE,
              is_cluster_mode |-> FALSE]

\* get_client: the cluster client in cluster mode, else the single client,
\* else the 'Redis not initialized' exception.
get_client ==
    IF rc.is_cluster_mode /\ rc.cluster_client THEN "cluster"
    ELSE IF rc.single_client THEN "single"
    ELSE "raise"

\* The body of an operation raises when get_client does or when the server
\* call does.
call_raises == get_client = "raise" \/ ~rc_up

try_nothing(raises, result, default) == IF raises THEN "raised" ELSE result

\* try: return <result> / except Exception: return <default>.
try_except(raises, result, default) == IF raises THEN default ELSE result

Call(op, value) == [op |-> op, value |-> value]

NoCall == Call(None, None)

\* initialize: the cluster first (its constructor or its ping may raise),
\* then the single node, whose ping raises out of initialize when the server
\* does not answer; a client attribute is assigned before its ping.
initialize ==
    /\ \E cluster \in {"ok", "constructor_raises", "ping_raises"} :
          /\ cluster = "ok" => rc_up
          /\ rc' = IF cluster = "ok"
                   THEN [rc EXCEPT !.cluster_client = TRUE,
                                   !.is_cluster_mode = TRUE]
                   ELSE [rc EXCEPT
                            !.cluster_client = @ \/ cluster = "ping_raises",
                            !.single_client = TRUE,
                            !.is_cluster_mode = IF rc_up THEN FALSE ELSE @]
          /\ rc_last' = Call("initialize",
                             IF cluster = "ok" \/ rc_up THEN "None"
                             ELSE "raised")
    /\ UNCHANGED <<rc_up, restOfRedis>>

set ==
    /\ rc_last' = Call("set", try_except(call_raises, "result", "False"))
    /\ UNCHANGED <<rc, rc_up, restOfRedis>>

get ==
    /\ rc_last' = Call("get", try_except(call_raises, "result", "None"))
    /\ UNCHANGED <<rc, rc_up, restOfRedis>>

incr ==
    /\ rc_last' = Call("incr", try_except(call_raises, "result", "None"))
    /\ UNCHANGED <<rc, rc_up, restOfRedis>>

delete ==
    /\ rc_last' = Call("delete", try_except(call_raises, "result", "False"))
    /\ UNCHANGED <<rc, rc_up, restOfRedis>>

exists ==
    /\ rc_last' = Call("exists", try_except(call_raises, "result", "False"))
    /\ UNCHANGED <<rc, rc_up, restOfRedis>>

expire ==
    /\ rc_last' = Call("expire", try_except(call_raises, "result", "False"))
    /\ UNCHANGED <<rc, rc_up, restOfRedis>>

keys ==
    /\ rc_last' = Call("keys", try_except(call_raises, "result", "[]"))
    /\ UNCHANGED <<rc, rc_up, restOfRedis>>

flushdb ==
    /\ rc_last' = Call("flushdb", try_except(call_raises, "result", "False"))
    /\ UNCHANGED <<rc, rc_up, restOfRedis>>

info ==
    /\ rc_last' = Call("info", try_except(call_raises, "result", "{}"))
    /\ UNCHANGED <<rc, rc_up, restOfRedis>>

health_check ==
    /\ rc_last' = Call("health_check", try_except(call_raises, "result", "unhealthy"))
    /\ UNCHANGED <<rc, rc_up, restOfRedis>>

\* close: both closes sit in one try block; nothing is returned.
close ==
    /\ rc_last' = Call("close", try_except(~rc_up /\ (rc.cluster_client
                                            \/ rc.single_client),
                                          "None", "None"))
    /\ UNCHANGED <<rc, rc_up, restOfRedis>>

\* The servers stop or start answering.
server_changes ==
    /\ rc_up' = ~rc_up
    /\ UNCHANGED <<rc, rc_last, restOfRedis>>

\* ------------------------------------------------------------- TLS manager

\* The external steps of SSLManager: each returns True, or False when its
\* command fails.
TlsSteps == {"obtain_certificate", "update_nginx_config", "reload_nginx",
             "renew_certificate", "setup_automatic_renewal"}

step_ok(step) == step \notin tls_failing

\* A finished run of main: the steps it called, in order, and the exit code
\* of the process (0 when main returns, 1 from sys.exit(1)).
Ran(flow, steps, exit_code) ==
    [flow |-> flow, steps |-> steps, exit_code |-> exit_code]

NoRun == Ran(None, <<>>, 0)

\* The result of reload_nginx is dropped where main calls it.
exit_after_reload(ok) == 0

\* main without flags: obtain, then the proxy config, then the reload.
main_default ==
    /\ tls_last' =
          IF ~step_ok("obtain_certificate")
          THEN Ran("default", <<"obtain_certificate">>, 1)
          ELSE IF ~step_ok("update_nginx_config")
          THEN Ran("default", <<"obtain_certificate", "update_nginx_config">>, 1)
          ELSE Ran("default",
                   <<"obtain_certificate", "update_nginx_config", "reload_nginx">>,
                   exit_after_reload(step_ok("reload_nginx")))
    /\ UNCHANGED <<tls_failing, restOfTls>>

\* main --renew: renew, then the reload.
main_renew ==
    /\ tls_last' =
          IF ~step_ok("renew_certificate")
          THEN Ran("renew", <<"renew_certificate">>, 1)
          ELSE Ran("renew", <<"renew_certificate", "reload_nginx">>,
                   exit_after_reload(step_ok("reload_nginx")))
    /\ UNCHANGED <<tls_failing, restOfTls>>

\* main --setup-auto: the cron installation.
main_setup_auto ==
    /\ tls_last' = Ran("setup_auto", <<"setup_automatic_renewal">>,
                       IF step_ok("setup_automatic_renewal") THEN 0 ELSE 1)
    /\ UNCHANGED <<tls_failing, restOfTls>>

\* main --check only logs.
main_check ==
    /\ tls_last' = Ran("check", <<>>, 0)
    /\ UNCHANGED <<tls_failing, restOfTls>>

\* --------------------------------------------------------------- admin CLI

\* The telegram ids the operator may pass: a stored user or an id of nobody.
CliTargets == {"u1", "nobody"}

CliIdle == [pc |-> "idle", cmd |-> None, uid |-> None, is_super_admin |-> FALSE,
            user |-> NoUser, printed |-> None, runs |-> 0]

CliWaiting == cli.pc \in {"idle", "done"} /\ cli.runs < MaxCliRuns

\* init_database and user_repo.find_by_telegram_id at the head of every
\* command: with no such user the command prints and returns.
cli_find(cmd, telegram_id, is_super_admin) ==
    IF telegram_id \in DOMAIN users
    THEN [pc |-> "loaded", cmd |-> cmd, uid |-> telegram_id,
          is_super_admin |-> is_super_admin, user |-> users[telegram_id],
          printed |-> None, runs |-> cli.runs + 1]
    ELSE [pc |-> "done", cmd |-> cmd, uid |-> telegram_id,
          is_super_admin |-> is_super_admin, user |-> NoUser,
          printed |-> "not_found", runs |-> cli.runs + 1]

\* user_repo.update(user) at the tail of every command: the loaded copy, with
\* the command's flags set on it, is written back whole.
cli_update(user, printed) ==
    /\ users' = user_update(users, cli.uid, user)
    /\ cli' = [cli EXCEPT !.pc = "done", !.user = NoUser, !.printed = printed]

make_admin ==
    /\ \/ /\ CliWaiting
          /\ \E telegram_id \in CliTargets, is_super_admin \in BOOLEAN :
                cli' = cli_find("make_admin", telegram_id, is_super_admin)
          /\ users' = users
       \/ /\ cli.pc = "loaded"
          /\ cli.cmd = "make_admin"
          /\ cli_update([cli.user EXCEPT
                            !.is_admin = TRUE,
                            !.is_super_admin = IF cli.is_super_admin THEN TRUE ELSE @],
                        "is_now_admin")
    /\ UNCHANGED <<applications, foks, req, received, only_submits, restOfCli>>

remove_admin ==
    /\ \/ /\ CliWaiting
          /\ \E telegram_id \in CliTargets :
                cli' = cli_find("remove_admin", telegram_id, FALSE)
          /\ users' = users
       \/ /\ cli.pc = "loaded"
          /\ cli.cmd = "remove_admin"
          /\ cli_update([cli.user EXCEPT !.is_admin = FALSE,
                                         !.is_super_admin = FALSE],
                        "privileges_removed")
    /\ UNCHANGED <<applications, foks, req, received, only_submits, restOfCli>>

block_user ==
    /\ \/ /\ CliWaiting
          /\ \E telegram_id \in CliTargets :
                cli' = cli_find("block_user", telegram_id, FALSE)
          /\ users' = users
       \/ /\ cli.pc = "loaded"
          /\ cli.cmd = "block_user"
          /\ cli_update([cli.user EXCEPT !.is_blocked = TRUE], "blocked")
    /\ UNCHANGED <<applications, foks, req, received, only_submits, restOfCli>>

unblock_user ==
    /\ \/ /\ CliWaiting
          /\ \E telegram_id \in CliTargets :
                cli' = cli_find("unblock_user", telegram_id, FALSE)
          /\ users' = users
       \/ /\ cli.pc = "loaded"
          /\ cli.cmd = "unblock_user"
          /\ cli_update([cli.user EXCEPT !.is_blocked = FALSE], "unblocked")
    /\ UNCHANGED <<applications, foks, req, received, only_submits, restOfCli>>

\* A submit-application callback arrives from a user while the CLI is in use.
cli_receive(p) ==
    /\ Waiting(p)
    /\ received < MaxCliRequests
    /\ received' = received + 1
    /\ only_submits' = TRUE
    /\ \E u \in Applicants :
            req' = [req EXCEPT ![p] =
                        [Idle EXCEPT !.pc = "mw_find", !.kind = "apply",
                                     !.uid = u, !.fok = "f1"]]
    /\ UNCHANGED <<applications, users, foks, restOfApp>>

\* ------------------------------------------------------------ specification

InitApp ==
    /\ applications = <<>>
    /\ users = [u \in UserIds |->
                    IF u = "u1" THEN User(TRUE, FALSE)
                    ELSE IF u = "u2" THEN User(FALSE, FALSE)
                    ELSE User(FALSE, TRUE)]
    /\ foks = [f \in FokIds |-> 0]
    /\ req = [p \in Procs |-> Idle]
    /\ received = 0
    /\ only_submits = TRUE

InitRate ==
    /\ rl_key = NoKey
    /\ rl_req = [p \in Procs |-> RlIdle]
    /\ rl_issued = 0
    /\ rl_clean = TRUE

InitUser ==
    /\ um_docs = <<>>
    /\ um_req = [p \in Procs |-> UmIdle]
    /\ um_received = 0

InitFsm == fsm = [u \in UserIds |-> None]

InitNotify ==
    /\ nt = NtIdle
    /\ nt_enqueued = 0

InitBroker == broker_up = TRUE

\* The parts of the bot a specification of another part leaves at rest.
\* Nothing is stored for retention cleanup to find.
InitCleanup ==
    /\ stored_applications = [i \in {} |-> None]
    /\ stored_users = [u \in {} |-> None]
    /\ utcnow = FirstDay
    /\ cleanup_result = None

\* No list is on screen and the paginated collections are empty.
InitPages ==
    /\ pg_store = [l \in PagedLists |-> 0]
    /\ pg_view = NoView

\* A conversation that has not opened the sport search.
InitSports ==
    /\ selected_sports = <<>>
    /\ sp_offered = {}
    /\ sp_last = NoCallback

\* An empty database before the first seeder run.
InitSeed ==
    /\ sd_districts = Named(0, 0)
    /\ sd_sports = Named(0, 0)
    /\ sd_foks = [before |-> 0, active |-> 0, inactive |-> 0]
    /\ sd_unique = TRUE
    /\ sd_runs = [count |-> 0, raised |-> FALSE]

\* The accessor as the module constructs it.
InitRedis ==
    /\ rc = NoClients
    /\ rc_up = TRUE
    /\ rc_last = NoCall

\* No CLI command has been run.
InitCli == cli = CliIdle

\* No update of a stored user is in progress.
InitActivity == act_req = [p \in Procs |-> ActIdle]

\* The broker holds no status-update task and none has run.
InitStatus ==
    /\ su_queue = <<>>
    /\ su_last = NoDelivery

\* The TLS manager has not run and every step would succeed.
InitTls ==
    /\ tls_failing = {}
    /\ tls_last = NoRun

InitTasks ==
    InitNotify /\ InitBroker /\ InitCleanup /\ InitPages /\ InitSports
    /\ InitSeed /\ InitRedis
    /\ InitCli
    /\ InitActivity
    /\ InitStatus
    /\ InitTls

Init == InitApp /\ InitRate /\ InitUser /\ InitFsm /\ InitTasks

Next ==
    \E p \in Procs :
        \/ Receive(p)
        \/ UserMiddleware(p)
        \/ apply_to_fok(p)
        \/ confirm_cancel_application(p)
        \/ admin_accept_application(p)
        \/ admin_transfer_application(p)
        \/ admin_complete_application(p)
        \/ admin_reject_application(p)

Spec == Init /\ [][Next]_vars

NextRate ==
    \/ \E p \in Procs : rl_receive(p) \/ RateLimitMiddleware(p)
    \/ rl_expire

SpecRate == Init /\ [][NextRate]_vars

NextUser == \E p \in Procs : um_receive(p) \/ UserResolution(p)

SpecUser == Init /\ [][NextUser]_vars

\* The admin gate: one application submitted by u1 is stored; u1 may or may
\* not carry the is_super_admin flag.
InitGate ==
    /\ applications = <<Application("u1", "f1")>>
    /\ \E flag \in BOOLEAN :
        users = [u \in UserIds |->
                    IF u = "u1"
                    THEN [User(TRUE, FALSE) EXCEPT !.total_applications = 1,
                                                   !.is_super_admin = flag]
                    ELSE IF u = "u2" THEN User(FALSE, FALSE)
                    ELSE User(FALSE, TRUE)]
    /\ foks = [f \in FokIds |-> IF f = "f1" THEN 1 ELSE 0]
    /\ req = [p \in Procs |-> Idle]
    /\ received = 0
    /\ only_submits = FALSE

NextAdmin ==
    \E p \in Procs :
        \/ gate_receive(p)
        \/ UserMiddleware(p)
        \/ user_middleware_fails(p)
        \/ admin_router(p)

InitAdmin == InitGate /\ InitRate /\ InitUser /\ InitFsm /\ InitTasks

SpecAdmin == InitAdmin /\ [][NextAdmin]_vars

\* Onboarding: the user was created by UserMiddleware and is at one of the
\* stages of the conversation: before /start, asked for a name, or named and
\* asked for a phone.
NewRegUser ==
    [User(FALSE, FALSE) EXCEPT !.registration_completed = FALSE]

InitReg ==
    /\ applications = <<>>
    /\ \E stage \in {None, waiting_for_name, waiting_for_phone} :
        /\ fsm = [u \in UserIds |-> IF u = RegUser THEN stage ELSE None]
        /\ users = [u \in UserIds |->
                    IF u = RegUser
                    THEN IF stage = waiting_for_phone
                         THEN [NewRegUser EXCEPT !.display_name = <<"A", "l">>]
                         ELSE NewRegUser
                    ELSE IF u = "u2" THEN User(FALSE, FALSE)
                    ELSE User(FALSE, TRUE)]
    /\ foks = [f \in FokIds |-> 0]
    /\ req = [p \in Procs |-> Idle]
    /\ received = 0
    /\ only_submits = FALSE

NextReg ==
    \E p \in Procs :
        \/ reg_receive(p)
        \/ UserMiddleware(p)
        \/ start_command(p)
        \/ process_name(p)
        \/ process_phone_contact(p)
        \/ skip_phone(p)
        \/ invalid_phone_input(p)
        \/ menu_command(p)
        \/ unhandled(p)
        \/ apply_to_fok(p)

InitOnboarding == InitReg /\ InitRate /\ InitUser /\ InitTasks

SpecReg == InitOnboarding /\ [][NextReg]_vars

\* The broker becomes unreachable, or reachable again.
broker_changes ==
    /\ broker_up' = ~broker_up
    /\ UNCHANGED restOfBroker

NextBroker == Next \/ broker_changes

SpecBroker == Init /\ [][NextBroker]_vars

NextNotify ==
    \/ nt_enqueue
    \/ nt_run
    \/ nt_send
    \/ nt_get_admins_fails
    \/ nt_close
    \/ nt_on_exception

SpecNotify == Init /\ [][NextNotify]_vars

\* The applications collection holds any Applications the bot can have
\* written: a PENDING one was never updated, any other one was stamped by the
\* update that gave it its status, shortly before, at or after the cutoff.
StoredApplications ==
    [status : {PENDING}, updated_at : {Unset}]
    \cup [status : ApplicationStatus \ {PENDING},
          updated_at : {At(day) : day \in (FirstDay - app_retention_days - 1)..
                                         (FirstDay - app_retention_days + 1)}]

StoredUsers ==
    [last_activity : {At(day) : day \in 0..2}, is_active : {TRUE}]

InitStore ==
    /\ stored_applications \in [StoredIds -> StoredApplications]
    /\ stored_users \in [{"u1"} -> StoredUsers]
    /\ utcnow = FirstDay
    /\ cleanup_result = None

InitRetention ==
    InitApp /\ InitRate /\ InitUser /\ InitFsm /\ InitNotify /\ InitBroker
    /\ InitStore /\ InitPages /\ InitSports /\ InitSeed /\ InitRedis
    /\ InitCli
    /\ InitActivity
    /\ InitStatus
    /\ InitTls

NextCleanup ==
    \/ cleanup_old_data
    \/ cleanup_users_write_fails
    \/ cleanup_delete_fails
    \/ day_passes

SpecCleanup == InitRetention /\ [][NextCleanup]_vars

NextActivity ==
    \/ NextCleanup
    \/ \E p \in Procs : activity_find(p) \/ activity_update(p)

\* A user is stored, last active shortly before, at or after the cutoff; no
\* application is.
InitUserStore ==
    /\ stored_applications = [i \in {} |-> None]
    /\ stored_users \in [{"u1"} -> StoredUsers]
    /\ utcnow = FirstDay
    /\ cleanup_result = None

InitActiveUsers ==
    InitApp /\ InitRate /\ InitUser /\ InitFsm /\ InitNotify /\ InitBroker
    /\ InitUserStore /\ InitPages /\ InitSports /\ InitSeed /\ InitRedis
    /\ InitCli /\ InitActivity /\ InitStatus /\ InitTls

SpecActivity == InitActiveUsers /\ [][NextActivity]_vars

\* The paginated collections hold any number of documents.
InitLists ==
    /\ pg_store \in [PagedLists -> 0..MaxItems]
    /\ pg_view = NoView

InitPaging ==
    InitApp /\ InitRate /\ InitUser /\ InitFsm /\ InitNotify /\ InitBroker
    /\ InitCleanup /\ InitLists /\ InitSports /\ InitSeed /\ InitRedis
    /\ InitCli
    /\ InitActivity
    /\ InitStatus
    /\ InitTls

NextPages ==
    \/ catalog_main
    \/ districts_page
    \/ district_foks
    \/ foks_page
    \/ my_applications
    \/ applications_page

SpecPages == InitPaging /\ [][NextPages]_vars

\* The facilities offer any sports; nothing is selected yet.
InitOffered ==
    /\ selected_sports = <<>>
    /\ sp_offered \in SUBSET Sports
    /\ sp_last = NoCallback

InitSearch ==
    InitApp /\ InitRate /\ InitUser /\ InitFsm /\ InitNotify /\ InitBroker
    /\ InitCleanup /\ InitPages /\ InitOffered /\ InitSeed /\ InitRedis
    /\ InitCli
    /\ InitActivity
    /\ InitStatus
    /\ InitTls

NextSports ==
    \/ toggle_sport
    \/ clear_sports
    \/ search_by_sports

SpecSports == InitSearch /\ [][NextSports]_vars

\* Any starting database: under the unique indexes a name is stored at most
\* once; the facility's district holds any number of other active facilities
\* that sort before it.
NamedDocs(unique) ==
    {d \in [active : 0..1, inactive : 0..1] : unique => d.active + d.inactive <= 1}

InitAnyDatabase ==
    /\ sd_unique \in BOOLEAN
    /\ sd_districts \in NamedDocs(sd_unique)
    /\ sd_sports \in NamedDocs(sd_unique)
    /\ sd_foks \in [before : 0..MaxBefore, active : 0..1, inactive : 0..1]
    /\ sd_runs = [count |-> 0, raised |-> FALSE]

InitSeeding ==
    InitApp /\ InitRate /\ InitUser /\ InitFsm /\ InitNotify /\ InitBroker
    /\ InitCleanup /\ InitPages /\ InitSports /\ InitAnyDatabase /\ InitRedis
    /\ InitCli
    /\ InitActivity
    /\ InitStatus
    /\ InitTls

NextSeed == init_sample_data

SpecSeed == InitSeeding /\ [][NextSeed]_vars

NextRedis ==
    \/ initialize
    \/ set
    \/ get
    \/ incr
    \/ delete
    \/ exists
    \/ expire
    \/ keys
    \/ flushdb
    \/ info
    \/ health_check
    \/ close
    \/ server_changes

SpecRedis == Init /\ [][NextRedis]_vars

\* Any of the external steps may be failing on the host.
InitHost ==
    /\ tls_failing \in SUBSET TlsSteps
    /\ tls_last = NoRun

InitTlsRun ==
    InitApp /\ InitRate /\ InitUser /\ InitFsm /\ InitNotify /\ InitBroker
    /\ InitCleanup /\ InitPages /\ InitSports /\ InitSeed /\ InitRedis
    /\ InitCli
    /\ InitActivity
    /\ InitStatus
    /\ InitHost

NextTls ==
    \/ main_default
    \/ main_renew
    \/ main_setup_auto
    \/ main_check

SpecTls == InitTlsRun /\ [][NextTls]_vars

\* Applications already stored when the cancel buttons are pressed: one of
\* user u1 and one of the administrator, each at any stage of the workflow.
StoredAt(user_id, status) ==
    IF status = PENDING THEN Application(user_id, "f1")
    ELSE update_status(Application(user_id, "f1"), status, Admin)

InitStoredApps ==
    /\ \E s1, s2 \in {PENDING, ACCEPTED, COMPLETED} :
            applications = <<StoredAt("u1", s1), StoredAt(Admin, s2)>>
    /\ users = [u \in UserIds |->
                    IF u = "u1" THEN User(TRUE, FALSE)
                    ELSE IF u = "u2" THEN User(FALSE, FALSE)
                    ELSE User(TRUE, TRUE)]
    /\ foks = [f \in FokIds |-> IF f = "f1" THEN 2 ELSE 0]
    /\ req = [p \in Procs |-> Idle]
    /\ received = 0
    /\ only_submits = FALSE

InitCancel == InitStoredApps /\ InitRate /\ InitUser /\ InitFsm /\ InitTasks

NextCancel ==
    \E p \in Procs :
        \/ cancel_receive(p)
        \/ UserMiddleware(p)
        \/ cancel_application_confirm(p)
        \/ confirm_cancel_application(p)

SpecCancel == InitCancel /\ [][NextCancel]_vars

\* One application of user u1 is stored as submitted.
InitSubmitted ==
    /\ applications = <<Application("u1", "f1")>>
    /\ users = [u \in UserIds |->
                    IF u = "u1" THEN User(TRUE, FALSE)
                    ELSE IF u = "u2" THEN User(FALSE, FALSE)
                    ELSE User(FALSE, TRUE)]
    /\ foks = [f \in FokIds |-> IF f = "f1" THEN 1 ELSE 0]
    /\ req = [p \in Procs |-> Idle]
    /\ received = 0
    /\ only_submits = FALSE

InitStatusUpdates == InitSubmitted /\ InitRate /\ InitUser /\ InitFsm /\ InitTasks

NextStatus ==
    \/ \E p \in Procs :
        \/ status_receive(p)
        \/ UserMiddleware(p)
        \/ accept_and_notify(p)
        \/ transfer_and_notify(p)
        \/ complete_and_notify(p)
        \/ reject_and_notify(p)
    \/ send_application_status_update

SpecStatus == InitStatusUpdates /\ [][NextStatus]_vars

NextCli ==
    \/ \E p \in Procs : cli_receive(p) \/ UserMiddleware(p) \/ apply_to_fok(p)
    \/ make_admin
    \/ remove_admin
    \/ block_user
    \/ unblock_user

SpecCli == Init /\ [][NextCli]_vars

\* ------------------------------------------------------------------ claims

StepOf(p) == req'[p] # req[p]

AppsOfUser(u) == {i \in DOMAIN applications : applications[i].user_id = u}

AppsOfFok(f) == {i \in DOMAIN applications : applications[i].fok_id = f}

\* C1: terminal states are absorbing: once an Application's stored status is
\* COMPLETED, CANCELLED or REJECTED, no step of any handler changes it.
C1_TerminalAbsorbing ==
    [][\A i \in DOMAIN applications :
            applications[i].status \in Terminal
                => applications'[i].status = applications[i].status]_vars

\* C2: in every reachable state each (user, facility) pair has at most one
\* Application whose status is neither CANCELLED nor REJECTED.
C2_OneLivePerUserFok ==
    \A u \in UserIds, f \in FokIds :
        Cardinality(LiveIds(applications, u, f)) <= 1

\* C3: when the submit handler queries the store while the user holds an
\* Application to that facility that is neither CANCELLED nor REJECTED, it
\* answers 'already applied', inserts no Application and changes no counter.
C3_DuplicateRefused ==
    [][\A p \in Procs :
            (/\ req[p].pc = "apply_check"
             /\ LiveIds(applications, req[p].uid, req[p].fok) # {}
             /\ StepOf(p))
                => /\ req'[p].pc = "done"
                   /\ req'[p].answer = "already_applied"
                   /\ applications' = applications
                   /\ users' = users
                   /\ foks' = foks]_vars

C3_Witness ==
    \E p \in Procs :
        /\ req[p].pc = "done"
        /\ req[p].kind = "apply"
        /\ req[p].answer = "already_applied"
        /\ LiveIds(applications, req[p].uid, req[p].fok) # {}

\* C4: the workflow order: a stored status becomes ACCEPTED only from PENDING,
\* TRANSFERRED only from ACCEPTED and COMPLETED only from TRANSFERRED.
C4_WorkflowOrder ==
    [][\A i \in DOMAIN applications :
            applications'[i].status # applications[i].status
                => /\ applications'[i].status = ACCEPTED
                        => applications[i].status = PENDING
                   /\ applications'[i].status = TRANSFERRED
                        => applications[i].status = ACCEPTED
                   /\ applications'[i].status = COMPLETED
                        => applications[i].status = TRANSFERRED]_vars

\* C5: can_be_cancelled is true exactly for PENDING and ACCEPTED; the owner's
\* confirm-cancel of an Application stored as PENDING or ACCEPTED goes on to
\* the write, and the write leaves it stored as CANCELLED with cancelled_at
\* and status_updated_at set.
C5_OwnerCancel ==
    [][/\ \A i \in DOMAIN applications :
            can_be_cancelled(applications[i])
                <=> applications[i].status \in {PENDING, ACCEPTED}
       /\ \A p \in Procs :
            /\ (/\ req[p].kind = "confirm_cancel"
                /\ req[p].pc = "handler"
                /\ req[p].app_id \in DOMAIN applications
                /\ applications[req[p].app_id].user_id = req[p].uid
                /\ applications[req[p].app_id].status \in {PENDING, ACCEPTED}
                /\ StepOf(p))
                    => req'[p].pc = "cancel_write"
            /\ (req[p].pc = "cancel_write" /\ StepOf(p))
                    => /\ req'[p].answer = "cancelled"
                       /\ applications'[req[p].app_id].status = CANCELLED
                       /\ applications'[req[p].app_id].cancelled_at
                       /\ applications'[req[p].app_id].status_updated_at]_vars

C5_Witness ==
    \E p \in Procs :
        /\ req[p].pc = "done"
        /\ req[p].kind = "confirm_cancel"
        /\ req[p].answer = "cancelled"
        /\ applications[req[p].app_id].status = CANCELLED
        /\ applications[req[p].app_id].cancelled_at

\* C6: no step of a confirm-cancel changes an Application whose stored status
\* is outside {PENDING, ACCEPTED}, whatever was persisted since its read.
C6_CancelOnlyCancellable ==
    [][\A p \in Procs :
            (/\ req[p].kind = "confirm_cancel"
             /\ ~Waiting(p)
             /\ req[p].app_id \in DOMAIN applications
             /\ applications[req[p].app_id].status \notin {PENDING, ACCEPTED}
             /\ StepOf(p))
                => applications'[req[p].app_id] = applications[req[p].app_id]]_vars

\* C7: when only submissions were processed, each of them inserted its
\* Application, no two for the same facility, and all have run to their end, each facility's and each user's
\* stored total_applications equals the number of submissions made to it or
\* by them, whatever their interleaving.
C7_CountersMatchSubmissions ==
    (/\ \A p \in Procs : Waiting(p)
     /\ only_submits
     /\ Len(applications) = received
     /\ \A i, j \in DOMAIN applications :
            (/\ applications[i].user_id = applications[j].user_id
             /\ applications[i].fok_id = applications[j].fok_id) => i = j)
        => /\ \A f \in FokIds : foks[f] = Cardinality(AppsOfFok(f))
           /\ \A u \in UserIds :
                users[u].total_applications = Cardinality(AppsOfUser(u))

\* C8: of the updates a user issues one after another inside one window, with
\* the store answering, exactly the first requests_limit reach the handler;
\* every later one gets the notice and the handler is not invoked for it.
C8_OnlyFirstLReachHandler ==
    [][\A p \in Procs :
            (rl_req[p].pc # "done" /\ rl_req'[p].pc = "done" /\ rl_clean')
                => IF rl_req'[p].seq <= requests_limit
                   THEN rl_req'[p].handled = 1 /\ ~rl_req'[p].answered
                   ELSE rl_req'[p].handled = 0 /\ rl_req'[p].answered]_vars

\* C9: the key rate_limit:{id} always carries a TTL, in every interleaving of
\* the user's updates with the expiry of the key.
C9_KeyAlwaysHasTTL == rl_key.value > 0 => rl_key.ttl

\* C10: rate limiting fails open: an update whose GET, SETEX or INCR failed
\* ends with no exception propagated and the handler invoked exactly once.
C10_FailOpen ==
    \A p \in Procs :
        (rl_req[p].pc = "done" /\ rl_req[p].error = "store")
            => ~rl_req[p].raised /\ rl_req[p].handled = 1

C10_Witness ==
    \E p \in Procs :
        /\ rl_req[p].pc = "done"
        /\ rl_req[p].error = "store"
        /\ rl_req[p].handled = 1

DocsOf(x) == {i \in DOMAIN um_docs : um_docs[i].telegram_id = x}

\* The update step of a resolution that follows another one in sequence and
\* carries the profile the stored record already has.
SecondResolution(p) ==
    /\ um_req[p].pc = "update"
    /\ um_req'[p].pc = "handler"
    /\ um_req'[p].error = None
    /\ um_req[p].user.id \in DOMAIN um_docs
    /\ \A q \in Procs \ {p} : UmWaiting(q)
    /\ LET stored == um_docs[um_req[p].user.id]
           tg == um_req[p].tg
       IN /\ stored.telegram_id = tg.id
          /\ stored.username = tg.username
          /\ stored.first_name =
                (IF tg.first_name = None THEN Placeholder ELSE tg.first_name)
          /\ stored.last_name = tg.last_name

\* C13 (as stated): a second resolution with unchanged profile fields leaves
\* exactly one User record for the platform id and changes no stored field of
\* it other than last_activity.
C13_OnlyLastActivityChanges ==
    [][\A p \in Procs :
        SecondResolution(p)
            => /\ Cardinality(DocsOf(um_req[p].tg.id)') = 1
               /\ um_docs'[um_req[p].user.id] =
                    [um_docs[um_req[p].user.id] EXCEPT
                        !.last_activity = um_docs'[um_req[p].user.id].last_activity]
      ]_vars

\* C13 (amended): a second resolution with unchanged profile fields leaves
\* exactly one User record for the platform id and changes no stored field of
\* it other than last_activity and updated_at.
C13_OnlyActivityAndUpdatedAtChange ==
    [][\A p \in Procs :
        SecondResolution(p)
            => /\ Cardinality(DocsOf(um_req[p].tg.id)') = 1
               /\ um_docs'[um_req[p].user.id] =
                    [um_docs[um_req[p].user.id] EXCEPT
                        !.last_activity = um_req[p].now,
                        !.updated_at = um_req[p].now]
      ]_vars

C13_Witness ==
    \E p \in Procs :
        /\ um_req[p].pc = "handler"
        /\ um_req[p].has_user
        /\ um_req[p].user.id \in DOMAIN um_docs
        /\ um_docs[um_req[p].user.id] = um_req[p].user
        /\ um_req[p].user.last_activity = um_req[p].now
        /\ um_req[p].user.username = um_req[p].tg.username
        /\ \A q \in Procs \ {p} : UmWaiting(q)

\* C14: at most one User record exists for any platform id, also after first
\* updates of an unseen id processed concurrently (both lookups empty before
\* either insert).
C14_OneRecordPerTelegramId ==
    \A x \in TelegramIds : Cardinality(DocsOf(x)) <= 1

C14_Witness ==
    \E p \in Procs :
        /\ um_req[p].error = "duplicate"
        /\ Cardinality(DocsOf(um_req[p].tg.id)) = 1

\* C15: when the lookup, the create or the update of user resolution fails,
\* no exception propagates, the handler is invoked exactly once and the
\* request carries no resolved user.
C15_ResolutionFailsOpen ==
    \A p \in Procs :
        /\ (um_req[p].pc \in {"handler", "done"} /\ um_req[p].error # None)
                => ~um_req[p].raised /\ ~um_req[p].has_user
        /\ (um_req[p].pc = "done" /\ um_req[p].error # None)
                => um_req[p].handled = 1

C15_Witness ==
    \E p \in Procs :
        /\ um_req[p].pc = "done"
        /\ um_req[p].error = "update"
        /\ um_req[p].handled = 1
        /\ ~um_req[p].has_user

\* C11: no accept, transfer, complete or reject transition is persisted for
\* an update whose resolved user is neither is_admin nor is_super_admin nor
\* listed as super admin, nor for an update with no resolved user.
C11_NoTransitionWithoutRights ==
    [][applications' # applications
        => \E p \in Procs :
            /\ StepOf(p)
            /\ req[p].kind \in AdminKinds
            /\ req[p].has_user
            /\ \/ req[p].user.is_admin
               \/ req[p].user.is_super_admin
               \/ req[p].uid \in super_admin_ids_list
      ]_vars

C11_Witness ==
    \E p, q \in Procs :
        /\ req[p].pc = "done" /\ req[p].kind \in AdminKinds
        /\ req[p].uid = "u1" /\ ~users["u1"].is_super_admin
        /\ req[p].answer = "no_rights"
        /\ req[q].pc = "done" /\ req[q].kind \in AdminKinds
        /\ req[q].answer = None
        /\ req[p].app_id = 1 /\ req[q].app_id = 1
        /\ applications[1].status = PENDING

\* A finished admin callback the gate refused: it got the alert or nothing.
GateRefused(p) ==
    /\ req[p].pc = "done"
    /\ req[p].kind \in AdminKinds
    /\ req[p].answer \in {None, "no_rights"}

\* C12: whenever the admin gate refuses a request the requester receives a
\* visible reply or alert, also when the update carries no resolved user.
C12_RefusalNeverSilent ==
    \A p \in Procs : GateRefused(p) => req[p].answer # None

\* C16: every Application record ever created was created for a user whose
\* stored record at that moment had phone_shared true and a non-empty phone.
C16_CreatedOnlyWithSharedPhone ==
    [][Len(applications') > Len(applications)
        => LET application == applications'[Len(applications')]
           IN /\ users[application.user_id].phone_shared
              /\ users[application.user_id].phone # None
      ]_vars

\* The message of task p is about to be routed while the conversation of
\* its user is in the given state.
RoutedIn(p, state) ==
    /\ StepOf(p)
    /\ req[p].pc = "handler"
    /\ req[p].kind = "message"
    /\ fsm[req[p].uid] = state

Trimmed(text) == rstrip(lstrip(text))

IsStart(text) == take_word(lstrip(text)) = T_start

\* process_name's write stores the trimmed text and its last step moves the
\* conversation to awaiting_phone.
NameStored(p) ==
    /\ (StepOf(p) /\ req[p].pc = "name_write")
            => users'[req[p].uid].display_name = Trimmed(req[p].text)
    /\ (StepOf(p) /\ req[p].pc = "name_answer")
            => fsm'[req[p].uid] = waiting_for_phone

\* A message with no text or fewer than 2 trimmed characters is re-prompted
\* and changes neither the conversation state nor the stored user.
ShortNameReprompted(p) ==
    (RoutedIn(p, waiting_for_name) /\ Len(Trimmed(req[p].text)) < 2)
        => /\ req'[p].pc = "done"
           /\ req'[p].answer = "reprompt_name"
           /\ fsm' = fsm
           /\ users' = users

\* C17 (as stated): in awaiting_name a message whose text has at least 2
\* characters after trimming sets the stored display_name to the trimmed text
\* and moves the conversation to awaiting_phone; a shorter or absent text
\* re-prompts and leaves state and display_name unchanged.
C17_AnyLongTextIsAName ==
    [][\A p \in Procs :
        /\ (RoutedIn(p, waiting_for_name) /\ Len(Trimmed(req[p].text)) >= 2)
                => /\ req'[p].pc = "name_write"
                   /\ req'[p].user.display_name = Trimmed(req[p].text)
        /\ NameStored(p)
        /\ ShortNameReprompted(p)
      ]_vars

\* C17 (amended): the same for every message other than the /start command,
\* which restarts onboarding in any state.
C17_LongTextButStartIsAName ==
    [][\A p \in Procs :
        /\ (/\ RoutedIn(p, waiting_for_name)
            /\ Len(Trimmed(req[p].text)) >= 2
            /\ ~IsStart(req[p].text))
                => /\ req'[p].pc = "name_write"
                   /\ req'[p].user.display_name = Trimmed(req[p].text)
        /\ NameStored(p)
        /\ ShortNameReprompted(p)
      ]_vars

C17_Witness ==
    \E p, q \in Procs :
        /\ req[p].pc = "done" /\ req[p].answer = "ask_phone"
        /\ req[p].text = <<" ", "a", "b">>
        /\ users[RegUser].display_name = <<"a", "b">>
        /\ fsm[RegUser] = waiting_for_phone
        /\ req[q].pc = "done" /\ req[q].answer = "reprompt_name"
        /\ req[q].text = <<" ", "a", " ">>

\* C18: in awaiting_phone a shared contact stores its phone number with
\* phone_shared and registration_completed true, a skip token stores
\* phone_shared false and registration_completed true; both clear the
\* conversation state and show the main menu.
C18_ContactOrSkipCompletes ==
    [][\A p \in Procs :
        /\ (RoutedIn(p, waiting_for_phone) /\ req[p].contact # None)
                => req'[p].pc = "contact_write"
        /\ (StepOf(p) /\ req[p].pc = "contact_write")
                => /\ users'[req[p].uid].phone = req[p].contact
                   /\ users'[req[p].uid].phone_shared
                   /\ users'[req[p].uid].registration_completed
        /\ (RoutedIn(p, waiting_for_phone) /\ req[p].contact = None
                /\ req[p].text \in {T_skip, T_skip_button})
                => req'[p].pc = "skip_write"
        /\ (StepOf(p) /\ req[p].pc = "skip_write")
                => /\ ~users'[req[p].uid].phone_shared
                   /\ users'[req[p].uid].registration_completed
        /\ (StepOf(p) /\ req[p].pc \in {"contact_answer", "skip_answer"})
                => /\ fsm'[req[p].uid] = None
                   /\ req'[p].pc = "done"
                   /\ req'[p].answer = "main_menu"
      ]_vars

C18_Witness ==
    \E p, q \in Procs :
        /\ req[p].pc = "done" /\ req[p].contact \in Phones
        /\ req[p].answer = "main_menu"
        /\ req[q].pc = "done" /\ req[q].text = T_skip_button
        /\ req[q].answer = "main_menu"
        /\ users[RegUser].registration_completed
        /\ fsm[RegUser] = None

\* C19: in awaiting_phone a message that is neither a contact nor a skip
\* token nor /start (so also /menu and any other command) is re-prompted
\* and leaves the conversation state and the stored user unchanged.
C19_OtherInputReprompts ==
    [][\A p \in Procs :
        (/\ RoutedIn(p, waiting_for_phone)
         /\ req[p].contact = None
         /\ req[p].text \notin {T_skip, T_skip_button}
         /\ ~IsStart(req[p].text))
            => /\ req'[p].pc = "done"
               /\ req'[p].answer = "reprompt_phone"
               /\ fsm' = fsm
               /\ users' = users
      ]_vars

C19_Witness ==
    \E p \in Procs :
        /\ req[p].pc = "done"
        /\ req[p].text = T_menu
        /\ req[p].answer = "reprompt_phone"
        /\ fsm[RegUser] = waiting_for_phone

\* C20: /start in any conversation state clears the state; for a user whose
\* registration_completed is false the handler then enters awaiting_name,
\* for a registered user it shows the main menu and sets no state; no step
\* of the handler changes a User field.
C20_StartRestartsOrShowsMenu ==
    [][\A p \in Procs :
        /\ (StepOf(p) /\ req[p].pc = "handler" /\ req[p].kind = "message"
                /\ IsStart(req[p].text))
                => /\ fsm'[req[p].uid] = None
                   /\ req'[p].pc = "start_answer"
                   /\ users' = users
        /\ (StepOf(p) /\ req[p].pc = "start_answer"
                /\ ~req[p].user.registration_completed)
                => /\ fsm'[req[p].uid] = waiting_for_name
                   /\ req'[p].answer = "ask_name"
                   /\ users' = users
        /\ (StepOf(p) /\ req[p].pc = "start_answer"
                /\ req[p].user.registration_completed)
                => /\ fsm' = fsm
                   /\ req'[p].answer = "main_menu"
                   /\ users' = users
      ]_vars

C20_Witness ==
    \E p, q \in Procs :
        /\ req[p].pc = "done" /\ req[p].text = T_start
        /\ req[p].answer = "ask_name"
        /\ req[q].pc = "done" /\ req[q].text = T_start
        /\ req[q].answer = "main_menu"
        /\ users[RegUser].registration_completed
        /\ fsm[RegUser] = None

\* C21: each retried notification task is executed at most 4 times per
\* enqueue; when every attempt fails it ends in a final failure and is not
\* retried again.
C21_AtMostFourExecutions ==
    [][/\ nt'.executions <= 4
       /\ (nt.pc = "raised" /\ nt.executions = 4) => nt'.pc = "failure"
       /\ nt.pc = "failure"
            => nt' = nt \/ (nt'.pc = "queued" /\ nt'.executions = 0
                                /\ nt_enqueued' = nt_enqueued + 1)
      ]_vars

C21_Witness ==
    /\ nt.pc = "failure"
    /\ nt.executions = 4
    /\ nt.kind = "send_bulk_notifications"
    /\ nt_enqueued = 2

\* C22: within one attempt of send-admin-notification a delivery failure
\* for any single recipient does not prevent the delivery attempts to all
\* the other recipients.
C22_FailureSkipsNoRecipient ==
    (/\ nt.kind = "send_admin_notification"
     /\ nt.pc \in {"raised", "success", "failure"}
     /\ nt.failed # {})
        => nt.attempted = {AdminChat, Admin, "u2"}

\* C23: when the enqueue of the applicant's notification fails after an
\* admin transition was persisted, the transition stays persisted and the
\* admin still gets the confirming toast.
C23_EnqueueIsBestEffort ==
    [][\A p \in Procs :
        (StepOf(p) /\ req[p].pc = "admin_write"
            /\ req[p].app_id \in DOMAIN applications)
            => /\ applications'[req[p].app_id].status
                    \in {ACCEPTED, TRANSFERRED, COMPLETED, REJECTED}
               /\ req'[p].answer = applications'[req[p].app_id].status
      ]_vars

\* C24: a run of retention cleanup that performs its deletion removes exactly
\* the stored Applications whose status is CANCELLED or REJECTED and whose
\* updated_at is more than 30 days before the clock; every other Application
\* stays stored with all its fields as they were, and none is added.
C24_CleanupDeletesExactlyOldWithdrawn ==
    [][cleanup_result' \in {"success", "failure"} =>
        /\ DOMAIN stored_applications' \subseteq DOMAIN stored_applications
        /\ \A i \in DOMAIN stored_applications :
              LET a == stored_applications[i]
                  old == /\ a.status \in {CANCELLED, REJECTED}
                         /\ \E day \in a.updated_at :
                                utcnow - day > app_retention_days
              IN  IF old
                  THEN i \notin DOMAIN stored_applications'
                  ELSE /\ i \in DOMAIN stored_applications'
                       /\ stored_applications'[i] = a
      ]_vars

\* A cleanup has deleted one Application and kept a CANCELLED one that was
\* updated exactly 30 days before.
C24_Witness ==
    /\ cleanup_result = "success"
    /\ DOMAIN stored_applications = {2}
    /\ stored_applications[2].status = CANCELLED
    /\ stored_applications[2].updated_at = {utcnow - app_retention_days}

\* The stamps a stored Application carries agree with its status.
StampsFollowStatus(app) ==
    /\ app.status = COMPLETED => app.completed_at
    /\ app.status = CANCELLED => app.cancelled_at
    /\ app.status # PENDING => app.status_updated_at /\ app.updated_at

EveryStoredStampFollowsStatus ==
    \A i \in DOMAIN applications : StampsFollowStatus(applications[i])

\* C25: every stored Application carries the stamps of its status (COMPLETED:
\* completed_at; CANCELLED: cancelled_at; any status but PENDING:
\* status_updated_at and updated_at), and a step that changes a stored
\* Application's status to one other than COMPLETED or CANCELLED leaves its
\* stored completed_at and cancelled_at as they were.
C25_StampsFollowStatusAndOthersKept ==
    [][/\ EveryStoredStampFollowsStatus'
       /\ \A i \in DOMAIN applications :
             (/\ applications'[i].status # applications[i].status
              /\ applications'[i].status \notin {COMPLETED, CANCELLED})
             => /\ applications'[i].completed_at = applications[i].completed_at
                /\ applications'[i].cancelled_at = applications[i].cancelled_at
      ]_vars

\* The stored Applications of user u to facility f, whatever their status.
AppsOfPair(u, f) ==
    {i \in DOMAIN applications :
        applications[i].user_id = u /\ applications[i].fok_id = f}

\* Every stored Application of user u to facility f is withdrawn or refused
\* (or there is none).
MayReapply(u, f) ==
    \A i \in AppsOfPair(u, f) : applications[i].status \in {CANCELLED, REJECTED}

\* C26: re-application after withdrawal or refusal: a submit of a user with a
\* shared phone for a stored facility goes on to the duplicate query; when the
\* query runs while every Application of the user to the facility is CANCELLED
\* or REJECTED (or none exists) it goes on to the insert; and the insert adds
\* one new PENDING Application for that user and facility.
C26_ReapplyAfterWithdrawal ==
    [][\A p \in Procs :
        (req[p].kind = "apply" /\ StepOf(p)) =>
            /\ (/\ req[p].pc = "handler"
                /\ users[req[p].uid].phone_shared
                /\ users[req[p].uid].phone # None
                /\ req[p].fok \in DOMAIN foks)
                    => req'[p].pc = "apply_check"
            /\ (/\ req[p].pc = "apply_check"
                /\ MayReapply(req[p].uid, req[p].fok))
                    => req'[p].pc = "apply_create"
            /\ req[p].pc = "apply_create"
                    => /\ Len(applications') = Len(applications) + 1
                       /\ SubSeq(applications', 1, Len(applications))
                              = applications
                       /\ applications'[Len(applications')].status = PENDING
                       /\ applications'[Len(applications')].user_id = req[p].uid
                       /\ applications'[Len(applications')].fok_id = req[p].fok
      ]_vars

\* A user holds a withdrawn or refused Application and a newer PENDING one to
\* the same facility.
C26_Witness ==
    \E i, j \in DOMAIN applications :
        /\ i < j
        /\ applications[i].user_id = applications[j].user_id
        /\ applications[i].fok_id = applications[j].fok_id
        /\ applications[i].status \in {CANCELLED, REJECTED}
        /\ applications[j].status = PENDING

\* Items first..last of a list in its sort order (none when first > last).
ItemsFromTo(first, last) == [k \in 1..(last - first + 1) |-> first + k - 1]

\* C27: a keyboard rendered for page p of a paginated list holding N items
\* shows exactly items p*S+1 .. min(N, (p+1)*S), has a 'prev' control iff
\* p > 0 and a 'next' control iff (p+1)*S < N.
C27_PageShowsItsItems ==
    pg_view.list \in PagedLists =>
        LET N == pg_store[pg_view.list]
            S == MAX_ITEMS_PER_PAGE
            p == pg_view.page
        IN /\ pg_view.shown = ItemsFromTo(p * S + 1, Min(N, (p + 1) * S))
           /\ pg_view.prev <=> p > 0
           /\ pg_view.next <=> (p + 1) * S < N

\* The sports a selection holds.
Selected(list) == {list[i] : i \in DOMAIN list}

\* C28: the sport selection behaves as a set: it never holds a sport twice; a
\* toggle of sport s removes s when it was selected and adds it when it was
\* not, every other sport staying as it was (so a second toggle of s restores
\* the selection); 'clear' empties it; and the facility query runs exactly
\* when the selection is non-empty.
C28_SelectionIsASet ==
    [][/\ \A i, j \in DOMAIN selected_sports' :
             selected_sports'[i] = selected_sports'[j] => i = j
       /\ sp_last'.kind = "toggle_sport" =>
             Selected(selected_sports') =
                IF sp_last'.sport \in Selected(selected_sports)
                THEN Selected(selected_sports) \ {sp_last'.sport}
                ELSE Selected(selected_sports) \cup {sp_last'.sport}
       /\ sp_last'.kind = "clear_sports" => selected_sports' = <<>>
       /\ sp_last'.kind = "search_by_sports" =>
             /\ selected_sports' = selected_sports
             /\ sp_last'.searched <=> selected_sports # <<>>
      ]_vars

\* A sport was toggled off again while two others stay selected.
C28_Witness ==
    /\ sp_last.kind = "toggle_sport"
    /\ sp_last.sport \notin Selected(selected_sports)
    /\ Len(selected_sports) = 2

\* C29: the seeder is idempotent for any starting database: a run creates no
\* district or sport whose name is already stored active, no facility whose
\* name is already stored active in its district, and a run directly after
\* another run changes nothing.
C29_SeederIdempotent ==
    [][sd_runs'.count = sd_runs.count + 1 =>
        /\ sd_districts.active > 0 => sd_districts' = sd_districts
        /\ sd_sports.active > 0 => sd_sports' = sd_sports
        /\ sd_foks.active > 0 => sd_foks' = sd_foks
        /\ sd_runs.count > 0 =>
              <<sd_districts', sd_sports', sd_foks'>>
                  = <<sd_districts, sd_sports, sd_foks>>
      ]_vars

\* What each operation of the accessor returns when it cannot do its work.
SafeDefault ==
    [set |-> "False", get |-> "None", incr |-> "None", delete |-> "False",
     exists |-> "False", expire |-> "False", keys |-> "[]",
     flushdb |-> "False", info |-> "{}", health_check |-> "unhealthy",
     close |-> "None"]

\* The accessor has no usable client, or the servers do not answer.
CannotServe ==
    \/ ~(rc.is_cluster_mode /\ rc.cluster_client) /\ ~rc.single_client
    \/ ~rc_up

\* C30: no operation of the accessor (set, get, incr, delete, exists, expire,
\* keys, flushdb, info, health_check, close) raises, whatever the accessor's
\* state; when the accessor has no usable client or the servers do not answer
\* the operation returns its safe default.
C30_OperationsNeverRaise ==
    [][(rc_last' # rc_last /\ rc_last'.op \in DOMAIN SafeDefault) =>
        /\ rc_last'.value # "raised"
        /\ CannotServe => rc_last'.value = SafeDefault[rc_last'.op]
      ]_vars

\* An operation returned its default on an accessor left in cluster mode by a
\* failed re-initialization while the servers do not answer.
C30_Witness ==
    /\ rc_last.op = "keys"
    /\ rc_last.value = "[]"
    /\ rc.is_cluster_mode /\ rc.cluster_client /\ rc.single_client
    /\ ~rc_up

\* C31: the TLS manager exits with a non-zero code whenever a step the
\* selected flow ran has failed: obtain, proxy-config update or proxy reload
\* in the default flow, renew or proxy reload in the --renew flow, the cron
\* installation in the --setup-auto flow.
C31_FailedStepExitsNonZero ==
    (/\ tls_last.flow \in {"default", "renew", "setup_auto"}
     /\ \E i \in DOMAIN tls_last.steps : tls_last.steps[i] \in tls_failing)
        => tls_last.exit_code # 0

\* C32: a failed submission leaves storage unchanged: the step on which a
\* submit-application handling ends with the generic error alert creates no
\* Application and changes neither the facility's nor the user's
\* total_applications.
C32_FailedSubmitLeavesStorage ==
    [][\A p \in Procs :
        (req[p].kind = "apply" /\ StepOf(p) /\ req'[p].answer = "error") =>
            /\ applications' = applications
            /\ foks' = foks
            /\ users'[req[p].uid].total_applications
                  = users[req[p].uid].total_applications
      ]_vars


Flags(user) == <<user.is_admin, user.is_super_admin, user.is_blocked>>

\* C33: the flags is_admin, is_super_admin and is_blocked of a stored user are
\* changed by CLI steps only: no step of a bot task, the write-back of a copy
\* loaded before a CLI write included, changes a stored flag.
C33_BotWriteKeepsCliFlags ==
    [][\A u \in UserIds :
        (cli' = cli) => Flags(users'[u]) = Flags(users[u])
      ]_vars


\* C34: a step that stores CANCELLED on an Application is the write of a
\* confirm-cancel whose resolved user is the application's owner; the cancel
\* and confirm-cancel callbacks of any other user, the administrator
\* included, are refused and leave the applications as they were.
C34_OnlyOwnerCancels ==
    [][/\ \A i \in DOMAIN applications :
            (applications'[i].status = CANCELLED /\ applications[i].status # CANCELLED)
                => \E p \in Procs :
                        /\ req[p].kind = "confirm_cancel"
                        /\ req[p].pc = "cancel_write"
                        /\ req[p].app_id = i
                        /\ req[p].uid = applications[i].user_id
                        /\ StepOf(p)
       /\ \A p \in Procs :
            (/\ req[p].kind \in {"cancel_app", "confirm_cancel"}
             /\ req[p].pc = "handler"
             /\ req[p].app_id \in DOMAIN applications
             /\ applications[req[p].app_id].user_id # req[p].uid
             /\ StepOf(p))
                => /\ req'[p].answer = "no_access"
                   /\ applications' = applications
      ]_vars

C34_Witness ==
    /\ \E p \in Procs :
        /\ req[p].kind = "confirm_cancel"
        /\ req[p].answer = "cancelled"
        /\ applications[req[p].app_id].status = CANCELLED
        /\ applications[req[p].app_id].user_id = req[p].uid
    /\ \E p \in Procs :
        /\ req[p].uid = Admin
        /\ req[p].kind = "confirm_cancel"
        /\ req[p].answer = "no_access"
        /\ applications[req[p].app_id].user_id = "u1"


\* C35: the status-update task enqueued by an admin transition to status S
\* announces S to the applicant when it runs, whatever the stored status of
\* the application has become in the meantime.
C35_TaskAnnouncesItsStatus ==
    [][(su_queue # <<>> /\ su_queue' = Tail(su_queue))
            => /\ su_last'.task = Head(su_queue)
               /\ su_last'.chat = "u1"
               /\ su_last'.announced = Head(su_queue).new_status
      ]_vars


\* C36: a submit-application of a user whose stored is_blocked flag is true,
\* and was true when the middleware loaded the user, creates no Application.
C36_BlockedUserCreatesNothing ==
    [][\A p \in Procs :
        (/\ req[p].kind = "apply"
         /\ StepOf(p)
         /\ users[req[p].uid].is_blocked
         /\ req[p].user.is_blocked)
            => applications' = applications
      ]_vars


\* C37: over the whole life of one enqueued admin notification, retries
\* included, no recipient is sent the message successfully more than once.
C37_AtMostOncePerRecipient ==
    nt.kind = "send_admin_notification" => nt.repeated = {}


\* C38: no step changes a stored user's is_active from false to true: a user
\* retention cleanup has marked inactive stays inactive through every later
\* bot update of that user.
C38_InactiveStaysInactive ==
    [][\A u \in DOMAIN stored_users :
        ~stored_users[u].is_active => ~stored_users'[u].is_active
      ]_vars


\* C39: in every stored User state bot updates produce, phone_shared implies
\* registration_completed and a present phone, and no step changes a stored
\* registration_completed from true back to false.
C39_RegistrationFlagsConsistent ==
    [][\A u \in UserIds :
        /\ users'[u].phone_shared
                => users'[u].registration_completed /\ users'[u].phone # None
        /\ users[u].registration_completed => users'[u].registration_completed
      ]_vars

====
